---- MODULE Spec2Model ----
\* Model of the Inda to-do list manager: the list store of ListContext
\* (ListProvider), its persistence effect, and the AI regroup / generate
\* flows of ListView and List.  List indices are 1-based here (0-based in
\* the source).
EXTENDS Integers, Sequences, FiniteSets, TLC

VARIABLES lists, storage, effectDue, shown, now, isRegrouping, showRegroupPreview, suggestedRegrouping, regroupCall, genCalls, drawn, ops, last, boot, relay, hook, listItem

vars == <<lists, storage, effectDue, shown, now, isRegrouping, showRegroupPreview, suggestedRegrouping, regroupCall, genCalls, drawn, ops, last, boot, relay, hook, listItem>>

\* the state of the running application
mainVars == <<lists, storage, effectDue, shown, now, isRegrouping, showRegroupPreview, suggestedRegrouping, regroupCall, genCalls, drawn, ops, last>>

\* the state of the side models (application start, relay, API hook, ListItem)
sideVars == <<boot, relay, hook, listItem>>

\* ------------------------------------------------------------------ bounds
\* Largest number of lists the model lets the collection grow to.
MaxLists == 2
\* Largest total number of items the user-driven operations grow the collection to.
MaxItems == 5
\* Number of times the millisecond clock advances.
MaxClock == 1
\* Number of user / network events in one run.
MaxOps == 3
\* Largest number of generate calls in flight at once.
MaxGenCalls == 1
\* The clock reading (in milliseconds) when the session starts.
StartClock == 10

\* ------------------------------------------------------------ sequences
Range(s) == {s[k] : k \in 1..Len(s)}

RECURSIVE SumLen(_)
\* lists.reduce((sum, list) => sum + list.items.length, 0)
SumLen(ls) == IF ls = <<>> THEN 0 ELSE Len(Head(ls).items) + SumLen(Tail(ls))

RECURSIVE Flat(_)
\* every item of the collection, list by list, in order
Flat(ls) == IF ls = <<>> THEN <<>> ELSE Head(ls).items \o Flat(Tail(ls))

RemoveAt(s, p) == SubSeq(s, 1, p - 1) \o SubSeq(s, p + 1, Len(s))

SwapAdjacent(s, p) == [k \in 1..Len(s) |-> IF k = p THEN s[p + 1] ELSE IF k = p + 1 THEN s[p] ELSE s[k]]

\* ------------------------------------------------------------ data model
Item(id, value, completed) == [id |-> id, value |-> value, completed |-> completed]

ListData(id, title, items) == [id |-> id, title |-> title, items |-> items]

STORAGE_KEY == "inda-lists-data"

\* the seed collection with a second item marked complete
getDefaultListsMutTwoDone == << ListData("list-1", "0.0 Inda 101", << Item("item-1", "add item and save using the buttons", FALSE), Item("item-2", "Hover to check or delete the item", FALSE), Item("item-3", "Double-click to edit list title and item text", TRUE), Item("item-5", "completed item looks like this", TRUE) >>) >>

\* the seed collection (the emoji of the second text are left out)
getDefaultLists == << ListData("list-1", "0.0 Inda 101", << Item("item-1", "add item and save using the buttons", FALSE), Item("item-2", "Hover to check or delete the item", FALSE), Item("item-3", "Double-click to edit list title and item text", FALSE), Item("item-5", "completed item looks like this", TRUE) >>) >>

\* Date.now().toString()
DateNowString(t) == ToString(t)

\* String.prototype.trim on the texts the model uses.
Trim(s) == CASE s = " " -> "" [] s = "   " -> "" [] s = " z " -> "z" [] s = " buy milk " -> "buy milk" [] OTHER -> s

ItemIds(ls) == {Flat(ls)[k].id : k \in 1..Len(Flat(ls))}

\* number of items of the collection that carry the id
IdCount(ls, id) == Cardinality({k \in 1..Len(Flat(ls)) : Flat(ls)[k].id = id})

\* ----------------------------------------------------------- persistence
RECURSIVE JoinStrings(_)
JoinStrings(ss) == IF ss = <<>> THEN "" ELSE IF Len(ss) = 1 THEN ss[1] ELSE ss[1] \o "," \o JoinStrings(Tail(ss))

BoolText(b) == IF b THEN "true" ELSE "false"

ItemJson(it) == "{\"id\":\"" \o it.id \o "\",\"value\":\"" \o it.value \o "\",\"completed\":" \o BoolText(it.completed) \o "}"

ListJson(l) == "{\"id\":\"" \o l.id \o "\",\"title\":\"" \o l.title \o "\",\"items\":[" \o JoinStrings([k \in 1..Len(l.items) |-> ItemJson(l.items[k])]) \o "]}"

\* JSON.stringify(lists)
JSONstringify(ls) == "[" \o JoinStrings([k \in 1..Len(ls) |-> ListJson(ls[k])]) \o "]"

\* localStorage.getItem(STORAGE_KEY) of an empty store
NoEntry == "<null>"

\* a collection an earlier session saved: two lists, made by addList, addItem
\* and edits at clock readings 5, 6 and 7
StoredLists == << ListData("5", "Groceries", << Item("6", "buy milk", FALSE) >>), ListData("7", "New List", <<>>) >>

\* the collections whose serialisation the model reads back
Parseable == {getDefaultLists, StoredLists, <<>>}

\* JSON.parse(text) succeeds
parses(text) == \E c \in Parseable : JSONstringify(c) = text

\* JSON.parse(text)
JSONparse(text) == CHOOSE c \in Parseable : JSONstringify(c) = text

\* useState initialiser of ListProvider
initialLists(savedLists) == IF savedLists # NoEntry /\ savedLists # "" THEN (IF parses(savedLists) THEN JSONparse(savedLists) ELSE getDefaultLists) ELSE getDefaultLists

\* what the store holds when the application starts
InitialEntries == {NoEntry, JSONstringify(StoredLists), "{\"id\":"}

\* ------------------------------------------------------ CRUD operations
addList(ls, t) == Append(ls, ListData(DateNowString(t), "New List", <<>>))

\* addItem appending to every list
addItemMutAll(ls, listIndex, t) == [index \in 1..Len(ls) |-> [ls[index] EXCEPT !.items = Append(@, Item(DateNowString(t), "", FALSE))]]

addItem(ls, listIndex, t) == [index \in 1..Len(ls) |-> IF index = listIndex THEN [ls[index] EXCEPT !.items = Append(@, Item(DateNowString(t), "", FALSE))] ELSE ls[index]]

updateItem(ls, listIndex, itemId, newValue) == [index \in 1..Len(ls) |-> IF index = listIndex THEN [ls[index] EXCEPT !.items = [k \in 1..Len(@) |-> IF @[k].id = itemId THEN [@[k] EXCEPT !.value = newValue] ELSE @[k]]] ELSE ls[index]]

updateTitle(ls, listIndex, newTitle) == [index \in 1..Len(ls) |-> IF index = listIndex THEN [ls[index] EXCEPT !.title = newTitle] ELSE ls[index]]

reorderItems(ls, listIndex, newOrder) == [index \in 1..Len(ls) |-> IF index = listIndex THEN [ls[index] EXCEPT !.items = newOrder] ELSE ls[index]]

\* deleteItem removing the item from whichever list holds it
deleteItemMutAnyList(ls, listIndex, itemId) == [index \in 1..Len(ls) |-> [ls[index] EXCEPT !.items = SelectSeq(@, LAMBDA it : it.id # itemId)]]

deleteItem(ls, listIndex, itemId) == [index \in 1..Len(ls) |-> IF index = listIndex THEN [ls[index] EXCEPT !.items = SelectSeq(@, LAMBDA it : it.id # itemId)] ELSE ls[index]]

\* toggleComplete setting the flag instead of inverting it
toggleCompleteMutSet(ls, listIndex, itemId) == [index \in 1..Len(ls) |-> IF index = listIndex THEN [ls[index] EXCEPT !.items = [k \in 1..Len(@) |-> IF @[k].id = itemId THEN [@[k] EXCEPT !.completed = TRUE] ELSE @[k]]] ELSE ls[index]]

toggleComplete(ls, listIndex, itemId) == [index \in 1..Len(ls) |-> IF index = listIndex THEN [ls[index] EXCEPT !.items = [k \in 1..Len(@) |-> IF @[k].id = itemId THEN [@[k] EXCEPT !.completed = ~@] ELSE @[k]]] ELSE ls[index]]

\* [...list.items].sort(...): stable, incomplete items first
sortedItems(items) == SelectSeq(items, LAMBDA it : ~it.completed) \o SelectSeq(items, LAMBDA it : it.completed)

\* ------------------------------------------------------- notifications
Toast(message, type) == [message |-> message, type |-> type]

\* ---------------------------------------------------- AI reply (parsed)
Absent == [tag |-> "absent", elems |-> <<>>]

Arr(s) == [tag |-> "array", elems |-> s]

NotArray == [tag |-> "other", elems |-> <<>>]

\* a null / falsy result of execute()
NoResult == [isNull |-> TRUE, lists |-> Absent, title |-> "", items |-> Absent]

Reply(ls, title, items) == [isNull |-> FALSE, lists |-> ls, title |-> title, items |-> items]

Category(title, items) == [title |-> title, items |-> items]

\* Math.random().toString(36).substr(2, 9) of the n-th draw of the session; the
\* model takes every draw to give a text no earlier draw gave
RandomSuffix(n) == "r" \o ToString(n)

\* the suffixes of the next draws after d draws
Draws(d) == [k \in 1..4 |-> RandomSuffix(d + k)]

\* existingItemsMap.get(id): the last item stored under the id
ExistingIndex(ls, id) ==
  LET F == Flat(ls) IN
  IF \E k \in 1..Len(F) : F[k].id = id THEN CHOOSE k \in 1..Len(F) : F[k].id = id /\ \A j \in (k + 1)..Len(F) : F[j].id # id ELSE 0

\* reconciliation that takes the completed flag of the response for every item
reconcileItemMutResponseFlag(ls, item) ==
  LET e == ExistingIndex(ls, item.id) IN
  IF e # 0 THEN [Flat(ls)[e] EXCEPT !.value = Trim(item.value), !.completed = item.completed] ELSE Item(item.id, Trim(item.value), item.completed)

\* one response item against the current collection (null means dropped)
reconcileItem(ls, item) ==
  LET e == ExistingIndex(ls, item.id) IN
  IF e # 0 THEN [Flat(ls)[e] EXCEPT !.value = Trim(item.value)] ELSE Item(item.id, Trim(item.value), item.completed)

\* category.items.map(...).filter(non-null).filter(non-empty text)
categoryItems(ls, items) ==
  LET kept == SelectSeq(items, LAMBDA it : it.id # "" /\ it.value # "") IN
  SelectSeq([k \in 1..Len(kept) |-> reconcileItem(ls, kept[k])], LAMBDA it : Trim(it.value) # "")

categoryTitle(title) == IF Trim(title) # "" THEN Trim(title) ELSE "Unnamed Category"

\* the categories after normalisation; ok = FALSE is the thrown structure error
normalize(resp) == IF resp.lists.tag = "absent" /\ resp.title # "" /\ resp.items.tag = "array" THEN [ok |-> TRUE, cats |-> <<Category(resp.title, resp.items)>>] ELSE IF resp.lists.tag # "array" THEN [ok |-> FALSE, cats |-> <<>>] ELSE [ok |-> TRUE, cats |-> resp.lists.elems]

\* parseAIResponse: err is "" on success, else the kind of the thrown error
parseAIResponse(resp, ls, t, rs) ==
  LET n == normalize(resp) IN
  IF ~n.ok THEN [err |-> "structure", lists |-> <<>>]
  ELSE IF \E k \in 1..Len(n.cats) : n.cats[k].items.tag # "array" THEN [err |-> "type", lists |-> <<>>]
  ELSE [err |-> "", lists |-> [k \in 1..Len(n.cats) |-> ListData("list-" \o DateNowString(t) \o "-" \o rs[k], categoryTitle(n.cats[k].title), categoryItems(ls, n.cats[k].items.elems))]]

NullSuggestion == [some |-> FALSE, lists |-> <<>>]

Suggestion(ls) == [some |-> TRUE, lists |-> ls]

NoCall == [active |-> FALSE, lists |-> <<>>]

\* the validation without the item count comparison
regroupCheckMutNoCount(totalItems, newLists) == IF Len(newLists) > 0 THEN "" ELSE "AI did not return a valid regrouping structure."

\* the validation after parsing: "" accepts, else the thrown message
regroupCheck(totalItems, newLists) == IF SumLen(newLists) # totalItems THEN "Some items were lost during regrouping. Operation cancelled." ELSE IF Len(newLists) > 0 THEN "" ELSE "AI did not return a valid regrouping structure."

\* the regroup call taking a null result for an empty suggestion
regroupOutcomeMutAcceptNull(result, ls, t, rs) ==
  LET parsed == parseAIResponse(result, ls, t, rs) IN
  IF result.isNull \/ parsed.err = "structure" THEN [err |-> "", lists |-> <<>>]
  ELSE IF parsed.err = "type" THEN [err |-> "TypeError", lists |-> <<>>]
  ELSE [err |-> regroupCheck(SumLen(ls), parsed.lists), lists |-> parsed.lists]

\* what the regroup call, started on collection ls, makes of the result
regroupOutcome(result, ls, t, rs) ==
  LET parsed == parseAIResponse(result, ls, t, rs) IN
  IF result.isNull THEN [err |-> "Failed to get response from AI service", lists |-> <<>>]
  ELSE IF parsed.err = "structure" THEN [err |-> "AI response error: Expected a top-level \"lists\" array containing category objects, but received an invalid structure.", lists |-> <<>>]
  ELSE IF parsed.err = "type" THEN [err |-> "TypeError", lists |-> <<>>]
  ELSE [err |-> regroupCheck(SumLen(ls), parsed.lists), lists |-> parsed.lists]

\* ------------------------------------------- replies the AI may give
\* an id the AI makes up
FabricatedId == "item-99"

\* the item sequences the model lets the AI return for the items F it was sent:
\* F itself, or F with one item dropped, repeated, given another item's id,
\* a made-up id, no id, another text, or the other completion flag
ItemVariants(F) ==
  {F}
  \cup {RemoveAt(F, p) : p \in 1..Len(F)}
  \cup {Append(F, F[p]) : p \in 1..Len(F)}
  \cup {[F EXCEPT ![pq[1]].id = F[pq[2]].id] : pq \in {x \in (1..Len(F)) \X (1..Len(F)) : x[1] # x[2]}}
  \cup {[F EXCEPT ![pb[1]].id = FabricatedId, ![pb[1]].completed = pb[2]] : pb \in (1..Len(F)) \X BOOLEAN}
  \cup {[F EXCEPT ![p].id = ""] : p \in 1..Len(F)}
  \cup {[F EXCEPT ![pv[1]].value = pv[2]] : pv \in (1..Len(F)) \X {"", "   ", " z "}}
  \cup {[F EXCEPT ![p].completed = ~@] : p \in 1..Len(F)}

\* one category holding s, or s cut in two categories
Categorized(s) ==
  {<<Category("Errands", Arr(s))>>}
  \cup {<<Category("Errands", Arr(SubSeq(s, 1, k))), Category(" Home ", Arr(SubSeq(s, k + 1, Len(s))))>> : k \in {j \in 1..(Len(s) - 1) : j = 1}}

\* the other shapes a reply takes: a bare category, no lists field, a lists
\* field that is no array, an empty lists array, a category without items,
\* a blank title
OtherShapes(F) ==
  { Reply(Absent, "Errands", Arr(F)), Reply(Absent, "", Arr(F)), Reply(Absent, "Errands", Absent),
    Reply(NotArray, "Errands", Arr(F)), Reply(Arr(<<>>), "", Absent),
    Reply(Arr(<<Category("Errands", Absent)>>), "", Absent),
    Reply(Arr(<<Category("   ", Arr(F))>>), "", Absent) }

Replies(ls) == {Reply(Arr(cs), "", Absent) : cs \in UNION {Categorized(s) : s \in ItemVariants(Flat(ls))}} \cup OtherShapes(Flat(ls))

\* -------------------------------------------------------------- history
\* the handler that ran last: its name, the list index and item id it was called
\* with, its outcome (or text argument) and, for a settled call, the reply
DidReply(op, idx, id, outcome, reply) == [op |-> op, idx |-> idx, id |-> id, outcome |-> outcome, reply |-> reply]

Did(op, outcome) == DidReply(op, 0, "", outcome, NoResult)

DidAt(op, idx, id, outcome) == DidReply(op, idx, id, outcome, NoResult)

\* ------------------------------------------------------------ JSON text
\* A text is a sequence of lexical units: one punctuation character, one
\* whitespace character, or one maximal run of word characters [a-zA-Z0-9_].
Whitespace == {" ", "\n"}

\* the characters of the JSON syntax
Syntax == {"{", "}", "[", "]", ":", ",", "\"", "\\"}

\* the code fence mark of Markdown (three grave accents), one unit
Fence == "<fence>"

\* other punctuation of the texts
OtherPunct == {Fence, "-", ".", "!"}

\* the unit is a run of word characters
IsWord(u) == u \notin Whitespace \cup Syntax \cup OtherPunct

\* the words that are JSON numbers
NumberWords == {"0", "1", "2", "3", "4", "5", "6", "7", "8", "9", "10", "42", "101"}

\* JSON values
JNull == [t |-> "null"]

JBool(b) == [t |-> "bool", b |-> b]

JNum(w) == [t |-> "num", n |-> w]

JStr(s) == [t |-> "str", s |-> s]

JArr(a) == [t |-> "arr", a |-> a]

\* an object: its keys in insertion order and their values
JObj(k, v) == [t |-> "obj", k |-> k, v |-> v]

\* the outcome of a parsing step: the value and the index after it
Parsed(v, i) == [ok |-> TRUE, v |-> v, i |-> i]

\* a SyntaxError
SyntaxError == [ok |-> FALSE, v |-> JNull, i |-> 0]

RECURSIVE SkipWs(_, _)
SkipWs(cs, i) == IF i <= Len(cs) /\ cs[i] \in Whitespace THEN SkipWs(cs, i + 1) ELSE i

RECURSIVE ScanString(_, _, _)
\* the characters of a string literal from index j to its closing quote
ScanString(cs, j, acc) ==
  IF j > Len(cs) THEN SyntaxError
  ELSE IF cs[j] = "\"" THEN Parsed(JStr(acc), j + 1)
  ELSE IF cs[j] = "\n" THEN SyntaxError
  ELSE IF cs[j] = "\\" THEN (IF j + 1 <= Len(cs) /\ cs[j + 1] \in {"\"", "\\"} THEN ScanString(cs, j + 2, Append(acc, cs[j + 1])) ELSE SyntaxError)
  ELSE ScanString(cs, j + 1, Append(acc, cs[j]))

\* obj[key] = value: a repeated key keeps its place and takes the last value
PutMember(ks, vs, key, value) ==
  IF \E p \in 1..Len(ks) : ks[p] = key
  THEN [k |-> ks, v |-> [p \in 1..Len(vs) |-> IF ks[p] = key THEN value ELSE vs[p]]]
  ELSE [k |-> Append(ks, key), v |-> Append(vs, value)]

RECURSIVE ParseValue(_, _)
RECURSIVE ParseElems(_, _, _, _)
RECURSIVE ParseMembers(_, _, _, _, _)
\* the elements of an array after its "[" (or after a comma when not first)
ParseElems(cs, i, acc, first) ==
  LET j == SkipWs(cs, i) IN
  IF j > Len(cs) THEN SyntaxError
  ELSE IF first /\ cs[j] = "]" THEN Parsed(JArr(acc), j + 1)
  ELSE LET r == ParseValue(cs, j) IN
       IF ~r.ok THEN SyntaxError
       ELSE LET k == SkipWs(cs, r.i) IN
            IF k > Len(cs) THEN SyntaxError
            ELSE IF cs[k] = "," THEN ParseElems(cs, k + 1, Append(acc, r.v), FALSE)
            ELSE IF cs[k] = "]" THEN Parsed(JArr(Append(acc, r.v)), k + 1)
            ELSE SyntaxError

\* the members of an object after its "{" (or after a comma when not first)
ParseMembers(cs, i, ks, vs, first) ==
  LET j == SkipWs(cs, i) IN
  IF j > Len(cs) THEN SyntaxError
  ELSE IF first /\ cs[j] = "}" THEN Parsed(JObj(ks, vs), j + 1)
  ELSE IF cs[j] # "\"" THEN SyntaxError
  ELSE LET key == ScanString(cs, j + 1, <<>>) IN
       IF ~key.ok THEN SyntaxError
       ELSE LET c == SkipWs(cs, key.i) IN
            IF c > Len(cs) \/ cs[c] # ":" THEN SyntaxError
            ELSE LET r == ParseValue(cs, c + 1) IN
                 IF ~r.ok THEN SyntaxError
                 ELSE LET k == SkipWs(cs, r.i)
                          m == PutMember(ks, vs, key.v.s, r.v) IN
                      IF k > Len(cs) THEN SyntaxError
                      ELSE IF cs[k] = "," THEN ParseMembers(cs, k + 1, m.k, m.v, FALSE)
                      ELSE IF cs[k] = "}" THEN Parsed(JObj(m.k, m.v), k + 1)
                      ELSE SyntaxError

\* one JSON value starting at or after index i
ParseValue(cs, i) ==
  LET j == SkipWs(cs, i) IN
  IF j > Len(cs) THEN SyntaxError
  ELSE IF cs[j] = "{" THEN ParseMembers(cs, j + 1, <<>>, <<>>, TRUE)
  ELSE IF cs[j] = "[" THEN ParseElems(cs, j + 1, <<>>, TRUE)
  ELSE IF cs[j] = "\"" THEN ScanString(cs, j + 1, <<>>)
  ELSE IF cs[j] \in NumberWords THEN Parsed(JNum(cs[j]), j + 1)
  ELSE IF cs[j] = "true" THEN Parsed(JBool(TRUE), j + 1)
  ELSE IF cs[j] = "false" THEN Parsed(JBool(FALSE), j + 1)
  ELSE IF cs[j] = "null" THEN Parsed(JNull, j + 1)
  ELSE SyntaxError

\* JSON.parse(text): ok = FALSE is the thrown SyntaxError
JsonParse(cs) ==
  LET r == ParseValue(cs, 1) IN
  IF r.ok /\ SkipWs(cs, r.i) > Len(cs) THEN [ok |-> TRUE, v |-> r.v] ELSE [ok |-> FALSE, v |-> JNull]

RECURSIVE Escape(_)
\* the characters of a string literal for the characters of a string
Escape(s) == IF s = <<>> THEN <<>> ELSE (IF Head(s) \in {"\"", "\\"} THEN <<"\\", Head(s)>> ELSE <<Head(s)>>) \o Escape(Tail(s))

RECURSIVE Stringify(_)
RECURSIVE StringifyAll(_, _)
\* the texts of the values (each after its key when keys are given), comma separated
StringifyAll(ks, vs) ==
  IF vs = <<>> THEN <<>>
  ELSE (IF ks # <<>> THEN <<"\"">> \o Escape(Head(ks)) \o <<"\"", ":">> ELSE <<>>) \o Stringify(Head(vs)) \o (IF Len(vs) > 1 THEN <<",">> ELSE <<>>) \o StringifyAll(IF ks # <<>> THEN Tail(ks) ELSE <<>>, Tail(vs))

\* JSON.stringify(value)
Stringify(v) ==
  CASE v.t = "null" -> <<"null">>
    [] v.t = "bool" -> <<IF v.b THEN "true" ELSE "false">>
    [] v.t = "num" -> <<v.n>>
    [] v.t = "str" -> <<"\"">> \o Escape(v.s) \o <<"\"">>
    [] v.t = "arr" -> <<"[">> \o StringifyAll(<<>>, v.a) \o <<"]">>
    [] v.t = "obj" -> <<"{">> \o StringifyAll(v.k, v.v) \o <<"}">>

\* the value of the member key of a JSON object (null when it has none)
Member(v, key) == IF v.t = "obj" /\ \E p \in 1..Len(v.k) : v.k[p] = key THEN v.v[CHOOSE p \in 1..Len(v.k) : v.k[p] = key] ELSE JNull

\* the units of the texts the lists of the model carry
Units(s) ==
  CASE s = "" -> <<>>
    [] s = "list-1" -> <<"list", "-", "1">>
    [] s = "0.0 Inda 101" -> <<"0", ".", "0", " ", "Inda", " ", "101">>
    [] s = "item-1" -> <<"item", "-", "1">>
    [] s = "item-2" -> <<"item", "-", "2">>
    [] s = "item-3" -> <<"item", "-", "3">>
    [] s = "item-5" -> <<"item", "-", "5">>
    [] s = "add item and save using the buttons" -> <<"add", " ", "item", " ", "and", " ", "save", " ", "using", " ", "the", " ", "buttons">>
    [] s = "Hover to check or delete the item" -> <<"Hover", " ", "to", " ", "check", " ", "or", " ", "delete", " ", "the", " ", "item">>
    [] s = "Double-click to edit list title and item text" -> <<"Double", "-", "click", " ", "to", " ", "edit", " ", "list", " ", "title", " ", "and", " ", "item", " ", "text">>
    [] s = "completed item looks like this" -> <<"completed", " ", "item", " ", "looks", " ", "like", " ", "this">>
    [] s = "buy milk" -> <<"buy", " ", "milk">>
    [] s = "New List" -> <<"New", " ", "List">>
    [] s = "say \"hi\"" -> <<"say", " ", "\"", "hi", "\"">>
    [] OTHER -> <<s>>

\* an Item and a ListData as the JSON values JSON.stringify sees
ItemValue(it) == JObj(<< <<"id">>, <<"value">>, <<"completed">> >>, << JStr(Units(it.id)), JStr(Units(it.value)), JBool(it.completed) >>)

ListValue(l) == JObj(<< <<"id">>, <<"title">>, <<"items">> >>, << JStr(Units(l.id)), JStr(Units(l.title)), JArr([k \in 1..Len(l.items) |-> ItemValue(l.items[k])]) >>)

\* the collection as a JSON value
ListsValue(ls) == JArr([k \in 1..Len(ls) |-> ListValue(ls[k])])

\* ------------------------------------------------------- application start
\* a side model that is not running
Idle == [phase |-> "idle"]

\* localStorage.getItem(STORAGE_KEY): null, or the text stored under the key
NoStoredEntry == [present |-> FALSE, text |-> <<>>]

StoredEntry(text) == [present |-> TRUE, text |-> text]

\* collections an earlier session saved
SavedCollections == {<<>>, StoredLists, getDefaultLists, toggleComplete(StoredLists, 1, "6"), <<ListData("5", "Groceries", <<Item("6", "say \"hi\"", TRUE), Item("7", "", FALSE)>>)>>}

\* the longest beginning of a saved text that a broken write leaves behind
MaxTruncated == 60

\* the beginnings of a text (the empty text among them)
Truncated(text) == {SubSeq(text, 1, n) : n \in 0..(IF Len(text) - 1 < MaxTruncated THEN Len(text) - 1 ELSE MaxTruncated)}

\* JSON texts that are not the text of a list collection
ForeignTexts == {<<"null">>, <<"{", "}">>, <<"42">>, <<"[", "1", "]">>, <<"\"", "x", "\"">>, <<"true">>, <<"{", "\"", "lists", "\"", ":", "[", "]", "}">>}

\* what the store holds under the key when the application starts
BootEntries ==
  {NoStoredEntry}
  \cup {StoredEntry(Stringify(ListsValue(c))) : c \in SavedCollections}
  \cup {StoredEntry(p) : p \in Truncated(Stringify(ListsValue(StoredLists)))}
  \cup {StoredEntry(t) : t \in ForeignTexts}

\* useState initialiser of ListProvider on the text level: the initial state as
\* a JSON value
initialValue(savedLists) ==
  IF savedLists.present /\ savedLists.text # <<>>
  THEN (IF JsonParse(savedLists.text).ok THEN JsonParse(savedLists.text).v ELSE ListsValue(getDefaultLists))
  ELSE ListsValue(getDefaultLists)

\* the application before ListProvider is mounted
Stored(entry) == [phase |-> "stored", entry |-> entry, lists |-> JNull]

\* ListProvider is mounted: useState runs its initialiser
Mount ==
  /\ boot.phase = "stored"
  /\ boot' = [phase |-> "mounted", entry |-> boot.entry, lists |-> initialValue(boot.entry)]
  /\ UNCHANGED <<mainVars, relay, hook, listItem>>

\* --------------------------------------------------------------- relay
\* process.env.*_API_KEY when the variable is not set
MissingKey == ""

\* the values the server-held credential takes
Credentials == {"sk-or-v1-a", "sk-or-v1-b"}

\* a message: the parts a template literal joins
ErrorBody(parts) == [kind |-> "error", error |-> parts]

\* { text: responseText }
TextBody(text) == [kind |-> "text", text |-> text]

\* the provider's payload, passed on as it came
DataBody(data) == [kind |-> "data", data |-> data]

NoBody == [kind |-> "none"]

\* defaultHeaders of the Bun server
defaultHeaders == {<<"Content-Type", "application/json">>, <<"Access-Control-Allow-Origin", "*">>, <<"Access-Control-Allow-Methods", "POST, OPTIONS">>, <<"Access-Control-Allow-Headers", "Content-Type, HTTP-Referer, X-Title, Accept">>}

Response(statusCode, body, headers) == [answered |-> TRUE, statusCode |-> statusCode, body |-> body, headers |-> headers]

\* the request has not been answered
NoAnswer == [answered |-> FALSE, statusCode |-> 0, body |-> NoBody, headers |-> {}]

\* what the provider does with a forwarded call: answers with a text, answers
\* without one (blocked or empty), answers an HTTP error with a JSON body
\* (error may be missing) or with a body that is no JSON, or cannot be reached
UpstreamBehaviours ==
  { [kind |-> "ok", status |-> 200, text |-> "[\"x\"]", reason |-> ""],
    [kind |-> "empty", status |-> 200, text |-> "", reason |-> "SAFETY"],
    [kind |-> "empty", status |-> 200, text |-> "", reason |-> ""],
    [kind |-> "http", status |-> 429, text |-> "Rate limit exceeded", reason |-> ""],
    [kind |-> "http", status |-> 401, text |-> "", reason |-> ""],
    [kind |-> "httpNoJson", status |-> 502, text |-> "Bad Gateway", reason |-> ""],
    [kind |-> "network", status |-> 0, text |-> "fetch failed", reason |-> ""] }

\* the HTTP methods of the requests
Methods == {"POST", "GET", "OPTIONS", "PUT"}

\* the request bodies: a full request, one without prompt, one cut short, none
RequestBodies ==
  { <<"{", "\"", "prompt", "\"", ":", "\"", "hi", "\"", ",", "\"", "modelName", "\"", ":", "\"", "m", "\"", "}">>,
    <<"{", "\"", "modelName", "\"", ":", "\"", "m", "\"", "}">>,
    <<"{", "\"", "prompt", "\"", ":">>,
    <<>> }

\* the member is missing or falsy
Falsy(v) == v = JNull \/ v = JStr(<<>>) \/ v = JBool(FALSE) \/ v = JNum("0")

\* the message of the error the SDK throws for the provider's behaviour
sdkErrorMessage(up) == IF up.text # "" THEN up.text ELSE "got status: " \o ToString(up.status)

\* the handler putting the headers of the forwarded call into its error body
handlerMutEchoKey(event, key, up) ==
  IF event.httpMethod # "POST" THEN Response(405, ErrorBody(<<"Method Not Allowed">>), {<<"Allow", "POST">>})
  ELSE IF key = MissingKey THEN Response(500, ErrorBody(<<"Server configuration error: Missing API key">>), {})
  ELSE IF ~JsonParse(IF event.body = <<>> THEN <<"{", "}">> ELSE event.body).ok THEN Response(500, ErrorBody(<<"Internal server error">>), {})
  ELSE IF up.kind \in {"network", "httpNoJson"} THEN Response(500, ErrorBody(<<"Internal server error">>), {})
  ELSE IF up.kind = "http" THEN Response(up.status, ErrorBody(<<IF up.text # "" THEN up.text ELSE "Error communicating with OpenRouter API", "Bearer " \o key>>), {})
  ELSE Response(200, DataBody([text |-> up.text, reason |-> up.reason]), {})

\* handler of the Netlify function (openrouter-proxy) with the credential key
handler(event, key, up) ==
  IF event.httpMethod # "POST" THEN Response(405, ErrorBody(<<"Method Not Allowed">>), {<<"Allow", "POST">>})
  ELSE IF key = MissingKey THEN Response(500, ErrorBody(<<"Server configuration error: Missing API key">>), {})
  ELSE IF ~JsonParse(IF event.body = <<>> THEN <<"{", "}">> ELSE event.body).ok THEN Response(500, ErrorBody(<<"Internal server error">>), {})
  ELSE IF up.kind \in {"network", "httpNoJson"} THEN Response(500, ErrorBody(<<"Internal server error">>), {})
  ELSE IF up.kind = "http" THEN Response(up.status, ErrorBody(IF up.text # "" THEN <<up.text>> ELSE <<"Error communicating with OpenRouter API">>), {})
  ELSE Response(200, DataBody([text |-> up.text, reason |-> up.reason]), {})

\* fetch of the Bun server (gemini proxy); without a credential the process
\* exits before it serves, so key is a credential here
bunFetch(request, key, up) ==
  LET body == JsonParse(request.body) IN
  IF request.httpMethod = "OPTIONS" THEN Response(204, NoBody, defaultHeaders)
  ELSE IF request.httpMethod # "POST" THEN Response(405, ErrorBody(<<"Method Not Allowed">>), defaultHeaders \cup {<<"Allow", "POST">>})
  ELSE IF ~body.ok THEN Response(500, ErrorBody(<<"Internal server error: ", "Unexpected end of JSON input">>), defaultHeaders)
  ELSE IF Falsy(Member(body.v, <<"prompt">>)) \/ Falsy(Member(body.v, <<"modelName">>)) THEN Response(400, ErrorBody(<<"Missing required fields: prompt and modelName">>), defaultHeaders)
  ELSE IF up.kind \in {"network", "http", "httpNoJson"} THEN Response(500, ErrorBody(<<"Internal server error: ", sdkErrorMessage(up)>>), defaultHeaders)
  ELSE IF up.kind = "empty" THEN Response(500, ErrorBody(<<"Gemini API call failed. ", IF up.reason # "" THEN "Reason: " \o up.reason ELSE "No response content.">>), defaultHeaders)
  ELSE Response(200, TextBody(up.text), defaultHeaders)

\* a request on its way to the relay named server; it is followed under two
\* settings of the credential, keys[1] and keys[2]
Request(server, keys, event, up) == [phase |-> "request", server |-> server, keys |-> keys, event |-> event, up |-> up, responses |-> <<NoAnswer, NoAnswer>>]

\* the requests to the Netlify function, with or without a credential, and to
\* the running Bun server
RelayRequests ==
  {Request("netlify", keys, [httpMethod |-> m, body |-> b], up) : keys \in (Credentials \cup {MissingKey}) \X (Credentials \cup {MissingKey}), m \in Methods, b \in RequestBodies, up \in UpstreamBehaviours}
  \cup {Request("bun", keys, [httpMethod |-> m, body |-> b], up) : keys \in Credentials \X Credentials, m \in Methods, b \in RequestBodies, up \in UpstreamBehaviours}

\* the Netlify function handles the request
NetlifyHandle ==
  /\ relay.phase = "request" /\ relay.server = "netlify"
  /\ relay' = [relay EXCEPT !.phase = "answered", !.responses = [i \in 1..2 |-> handler(relay.event, relay.keys[i], relay.up)]]
  /\ UNCHANGED <<mainVars, boot, hook, listItem>>

\* the Bun server handles the request
BunHandle ==
  /\ relay.phase = "request" /\ relay.server = "bun"
  /\ relay' = [relay EXCEPT !.phase = "answered", !.responses = [i \in 1..2 |-> bunFetch(relay.event, relay.keys[i], relay.up)]]
  /\ UNCHANGED <<mainVars, boot, hook, listItem>>

\* ------------------------------------------------------ useGeminiAPI hook
RECURSIVE StripFences(_)
\* jsonStr.replace(/(fence)json|(fence)/g, ''): every code fence mark goes, with
\* the word json when it follows the mark
StripFences(cs) ==
  IF cs = <<>> THEN <<>>
  ELSE IF Head(cs) = Fence THEN (IF Len(cs) > 1 /\ cs[2] = "json" THEN StripFences(Tail(Tail(cs))) ELSE StripFences(Tail(cs)))
  ELSE <<Head(cs)>> \o StripFences(Tail(cs))

RECURSIVE TrimStart(_)
TrimStart(cs) == IF cs # <<>> /\ Head(cs) \in Whitespace THEN TrimStart(Tail(cs)) ELSE cs

RECURSIVE TrimEnd(_)
TrimEnd(cs) == IF cs # <<>> /\ cs[Len(cs)] \in Whitespace THEN TrimEnd(SubSeq(cs, 1, Len(cs) - 1)) ELSE cs

\* cleaned.trim()
TrimUnits(cs) == TrimEnd(TrimStart(cs))

\* cleaned.indexOf(c), 1-based; 0 when c does not occur
IndexOf(cs, c) == IF \E p \in 1..Len(cs) : cs[p] = c THEN CHOOSE p \in 1..Len(cs) : cs[p] = c /\ \A q \in 1..(p - 1) : cs[q] # c ELSE 0

\* cleaned.lastIndexOf(c), 1-based; 0 when c does not occur
LastIndexOf(cs, c) == IF \E p \in 1..Len(cs) : cs[p] = c THEN CHOOSE p \in 1..Len(cs) : cs[p] = c /\ \A q \in (p + 1)..Len(cs) : cs[q] # c ELSE 0

\* the text from its first "{" or "[" on, when it does not start with one
CutStart(cs) ==
  LET objectStart == IndexOf(cs, "{")
      arrayStart == IndexOf(cs, "[") IN
  IF cs # <<>> /\ Head(cs) \in {"{", "["} THEN cs
  ELSE IF objectStart # 0 /\ (arrayStart = 0 \/ objectStart < arrayStart) THEN SubSeq(cs, objectStart, Len(cs))
  ELSE IF arrayStart # 0 THEN SubSeq(cs, arrayStart, Len(cs))
  ELSE cs

\* the text up to its last "}" or "]", when it does not end with one
CutEnd(cs) ==
  LET objectEnd == LastIndexOf(cs, "}")
      arrayEnd == LastIndexOf(cs, "]") IN
  IF cs # <<>> /\ cs[Len(cs)] \in {"}", "]"} THEN cs
  ELSE IF objectEnd # 0 /\ (arrayEnd = 0 \/ objectEnd > arrayEnd) THEN SubSeq(cs, 1, objectEnd)
  ELSE IF arrayEnd # 0 THEN SubSeq(cs, 1, arrayEnd)
  ELSE cs

RECURSIVE DropTrailingCommas(_, _)
\* cleaned.replace(/,\s*([}\]])/g, '$1'), from index i on
DropTrailingCommas(cs, i) ==
  IF i > Len(cs) THEN <<>>
  ELSE LET j == SkipWs(cs, i + 1) IN
       IF cs[i] = "," /\ j <= Len(cs) /\ cs[j] \in {"}", "]"}
       THEN <<cs[j]>> \o DropTrailingCommas(cs, j + 1)
       ELSE <<cs[i]>> \o DropTrailingCommas(cs, i + 1)

RECURSIVE QuoteKeys(_, _)
\* cleaned.replace(/(\{|,)\s*([a-zA-Z0-9_]+)\s*:/g, '$1"$2":'), from index i on
QuoteKeys(cs, i) ==
  IF i > Len(cs) THEN <<>>
  ELSE LET j == SkipWs(cs, i + 1)
           k == SkipWs(cs, j + 1) IN
       IF cs[i] \in {"{", ","} /\ j <= Len(cs) /\ IsWord(cs[j]) /\ k <= Len(cs) /\ cs[k] = ":"
       THEN <<cs[i], "\"", cs[j], "\"", ":">> \o QuoteKeys(cs, k + 1)
       ELSE <<cs[i]>> \o QuoteKeys(cs, i + 1)

sanitizeJsonString(jsonStr) == QuoteKeys(DropTrailingCommas(CutEnd(CutStart(TrimUnits(StripFences(jsonStr)))), 1), 1)

\* the nesting the pattern of the third attempt follows
PatternDepth == 3

RECURSIVE ScanSpan(_, _, _, _, _)
\* the pattern of the third attempt from index j, inside a span opened by open
\* at nesting level: the index of the closing character, 0 when there is no match
ScanSpan(cs, j, open, close, level) ==
  IF j > Len(cs) THEN 0
  ELSE IF cs[j] = close THEN j
  ELSE IF cs[j] = open
       THEN (IF level = PatternDepth THEN 0
             ELSE LET e == ScanSpan(cs, j + 1, open, close, level + 1) IN
                  IF e = 0 THEN 0 ELSE ScanSpan(cs, e + 1, open, close, level))
  ELSE ScanSpan(cs, j + 1, open, close, level)

\* the end of the match of the pattern that starts at index i (0: none)
SpanEnd(cs, i) == IF cs[i] = "{" THEN ScanSpan(cs, i + 1, "{", "}", 1) ELSE IF cs[i] = "[" THEN ScanSpan(cs, i + 1, "[", "]", 1) ELSE 0

\* jsonStr.match(pattern): the leftmost match; found = FALSE is null
firstSpan(cs) ==
  IF \E i \in 1..Len(cs) : SpanEnd(cs, i) # 0
  THEN LET i == CHOOSE p \in 1..Len(cs) : SpanEnd(cs, p) # 0 /\ \A q \in 1..(p - 1) : SpanEnd(cs, q) = 0 IN [found |-> TRUE, text |-> SubSeq(cs, i, SpanEnd(cs, i))]
  ELSE [found |-> FALSE, text |-> <<>>]

\* robustJsonParse sanitizing before its first attempt
robustJsonParseMutSanitizeFirst(jsonStr) ==
  LET second == JsonParse(sanitizeJsonString(jsonStr))
      jsonMatch == firstSpan(jsonStr)
      third == JsonParse(jsonMatch.text) IN
  IF second.ok THEN [ok |-> TRUE, v |-> second.v, attempt |-> 2, message |-> ""]
  ELSE IF jsonMatch.found /\ third.ok THEN [ok |-> TRUE, v |-> third.v, attempt |-> 3, message |-> ""]
  ELSE IF jsonMatch.found THEN [ok |-> FALSE, v |-> JNull, attempt |-> 3, message |-> "Failed to parse response as valid JSON after multiple attempts"]
  ELSE [ok |-> FALSE, v |-> JNull, attempt |-> 3, message |-> "Could not extract valid JSON from response"]

\* robustJsonParse: the value, the attempt that gave it, or the thrown message
robustJsonParse(jsonStr) ==
  LET first == JsonParse(jsonStr)
      second == JsonParse(sanitizeJsonString(jsonStr))
      jsonMatch == firstSpan(jsonStr)
      third == JsonParse(jsonMatch.text) IN
  IF first.ok THEN [ok |-> TRUE, v |-> first.v, attempt |-> 1, message |-> ""]
  ELSE IF second.ok THEN [ok |-> TRUE, v |-> second.v, attempt |-> 2, message |-> ""]
  ELSE IF jsonMatch.found /\ third.ok THEN [ok |-> TRUE, v |-> third.v, attempt |-> 3, message |-> ""]
  ELSE IF jsonMatch.found THEN [ok |-> FALSE, v |-> JNull, attempt |-> 3, message |-> "Failed to parse response as valid JSON after multiple attempts"]
  ELSE [ok |-> FALSE, v |-> JNull, attempt |-> 3, message |-> "Could not extract valid JSON from response"]

\* execute() returning null
NullResult == [isNull |-> TRUE, v |-> JNull]

\* execute() returning a value
Result(v) == [isNull |-> FALSE, v |-> v]

\* the JSON values the provider is asked for
ReplyValues ==
  { JObj(<< <<"a">> >>, << JNum("1") >>),
    JArr(<< JStr(<<"x">>), JStr(<<"y">>), JStr(<<>>), JStr(<<"z">>) >>),
    JObj(<< <<"lists">> >>, << JArr(<< JObj(<< <<"title">>, <<"items">> >>, << JStr(<<"Errands">>), JArr(<< ItemValue(Item("6", "buy milk", FALSE)) >>) >>) >>) >>),
    JObj(<< <<"note">> >>, << JStr(<<"milk", ",", " ", "eggs", ":", " ", "2">>) >>),
    JArr(<< JStr(<<"a", ",", "]">>) >>),
    JObj(<< <<"a">> >>, << JObj(<< <<"b">> >>, << JObj(<< <<"c">> >>, << JObj(<< <<"d">> >>, << JArr(<< JNum("1"), JNum("2") >>) >>) >>) >>) >>) }

\* the text with a comma (and the whitespace ws) put before its last character
WithTrailingComma(text, ws) == SubSeq(text, 1, Len(text) - 1) \o <<",">> \o ws \o <<text[Len(text)]>>

\* the ways a reply wraps the JSON text of a value
Wrappings(text) ==
  { [how |-> "plain", text |-> text],
    [how |-> "trailingComma", text |-> WithTrailingComma(text, <<>>)],
    [how |-> "trailingComma", text |-> WithTrailingComma(text, <<"\n", " ">>)],
    [how |-> "fenced", text |-> <<Fence, "json", "\n">> \o text \o <<"\n", Fence>>],
    [how |-> "fenced", text |-> <<Fence, "json", "\n">> \o text \o <<"\n", Fence, "\n">>],
    [how |-> "prose", text |-> <<"prefix", " ">> \o text \o <<" ", "suffix">>],
    [how |-> "prose", text |-> <<"Here", " ", "you", " ", "go", ":", "\n">> \o text \o <<"\n", "Enjoy", "!">>],
    [how |-> "prose", text |-> <<"Sorted", " ", "[", "v2", "]", ":", " ">> \o text \o <<" ", "done">>] }

\* replies that hold no JSON object or array
NoJsonTexts == { <<>>, <<"Sorry", ",", " ", "I", " ", "cannot", " ", "help", ".">>, <<"prefix", " ", "suffix">>, <<"{", "\"", "a", "\"", ":">>, <<"[", "\"", "x", "\"", ",">> }

\* a reply of the relay as the hook's fetch sees it; how and of tell how the
\* text was made from the value of
HookReply(response, how, of) == [response |-> response, how |-> how, of |-> of]

NoReply == HookReply(NoAnswer, "", JNull)

\* what fetch(API_URL) may end with: no connection, an HTTP error with or without
\* a JSON {error} body, a 200 with {error}, a 200 without text, a 200 with a text
HookReplies ==
  { HookReply(NoAnswer, "network", JNull),
    HookReply(Response(429, ErrorBody(<<"Rate limit exceeded">>), {}), "http", JNull),
    HookReply(Response(500, ErrorBody(<<"Internal server error: ", "fetch failed">>), {}), "http", JNull),
    HookReply(Response(502, NoBody, {}), "http", JNull),
    HookReply(Response(200, ErrorBody(<<"Gemini API call failed. ", "No response content.">>), {}), "relayError", JNull),
    HookReply(Response(200, DataBody([text |-> "", reason |-> ""]), {}), "noText", JNull) }
  \cup UNION {{HookReply(Response(200, TextBody(w.text), defaultHeaders), w.how, v) : w \in Wrappings(Stringify(v))} : v \in ReplyValues}
  \cup {HookReply(Response(200, TextBody(t), defaultHeaders), "noJson", JNull) : t \in NoJsonTexts}

\* the hook before execute is called
HookIdle(isOnline, responseFormat) == [phase |-> "idle", isOnline |-> isOnline, responseFormat |-> responseFormat, isLoading |-> FALSE, error |-> <<>>, data |-> NullResult, requests |-> 0, calls |-> 0, toasts |-> <<>>, reply |-> NoReply, result |-> NullResult]

\* the catch of execute without the finally
executeFailedMutLoading(h, rep, message) == [h EXCEPT !.phase = "returned", !.isLoading = TRUE, !.error = message, !.toasts = <<Toast(<<"API Error: ">> \o message, "error")>>, !.reply = rep, !.result = NullResult]

\* the catch and finally of execute for the thrown message
executeFailed(h, rep, message) == [h EXCEPT !.phase = "returned", !.isLoading = FALSE, !.error = message, !.toasts = <<Toast(<<"API Error: ">> \o message, "error")>>, !.reply = rep, !.result = NullResult]

\* the return (and finally) of execute with the parsed result
executeDone(h, rep, v) == [h EXCEPT !.phase = "returned", !.isLoading = FALSE, !.data = Result(v), !.toasts = <<>>, !.reply = rep, !.result = Result(v)]

\* execute from the answer of fetch on
executeOutcome(h, rep) ==
  LET r == rep.response
      parsed == robustJsonParse(r.body.text) IN
  IF ~r.answered THEN executeFailed(h, rep, <<"Failed to fetch">>)
  ELSE IF r.statusCode < 200 \/ r.statusCode > 299 THEN executeFailed(h, rep, IF r.body.kind = "error" /\ r.body.error # <<>> THEN r.body.error ELSE <<"HTTP error ", ToString(r.statusCode)>>)
  ELSE IF r.body.kind = "none" THEN executeFailed(h, rep, <<"Unexpected end of JSON input">>)
  ELSE IF r.body.kind = "error" /\ r.body.error # <<>> THEN executeFailed(h, rep, r.body.error)
  ELSE IF r.body.kind # "text" THEN executeFailed(h, rep, <<"Invalid response format received from proxy.">>)
  ELSE IF h.responseFormat = "json"
       THEN (IF parsed.ok THEN executeDone(h, rep, parsed.v) ELSE executeFailed(h, rep, <<"Failed to parse API response as JSON: ", parsed.message, ". Raw text: \"", r.body.text, "...\"">>))
  ELSE executeDone(h, rep, JStr(r.body.text))

\* the number of times execute is called
MaxCalls == 1

\* execute without the test of the online flag
ExecuteStartMutNoOnlineTest ==
  /\ hook.phase \in {"idle", "returned"}
  /\ hook.calls < MaxCalls
  /\ hook' = [hook EXCEPT !.phase = "fetching", !.calls = @ + 1, !.isLoading = TRUE, !.error = <<>>, !.toasts = <<>>, !.requests = @ + 1, !.reply = NoReply, !.result = NullResult]
  /\ UNCHANGED <<mainVars, boot, relay, listItem>>

\* execute up to its fetch: offline it returns null at once
ExecuteStart ==
  /\ hook.phase \in {"idle", "returned"}
  /\ hook.calls < MaxCalls
  /\ IF ~hook.isOnline
     THEN hook' = [hook EXCEPT !.phase = "returned", !.calls = @ + 1, !.isLoading = FALSE, !.error = <<"You are currently offline. This feature requires an internet connection.">>, !.toasts = <<Toast(<<"This action requires an internet connection">>, "error")>>, !.reply = NoReply, !.result = NullResult]
     ELSE hook' = [hook EXCEPT !.phase = "fetching", !.calls = @ + 1, !.isLoading = TRUE, !.error = <<>>, !.toasts = <<>>, !.requests = @ + 1, !.reply = NoReply, !.result = NullResult]
  /\ UNCHANGED <<mainVars, boot, relay, listItem>>

\* execute from the answer of fetch on
ExecuteSettle ==
  /\ hook.phase = "fetching"
  /\ \E rep \in HookReplies : hook' = executeOutcome(hook, rep)
  /\ UNCHANGED <<mainVars, boot, relay, listItem>>

\* the online and offline events of the window
HandleOnline ==
  /\ hook.phase # "idle" /\ ~hook.isOnline
  /\ hook' = [hook EXCEPT !.isOnline = TRUE, !.toasts = <<Toast(<<"You are back online">>, "success")>>]
  /\ UNCHANGED <<mainVars, boot, relay, listItem>>

HandleOffline ==
  /\ hook.phase # "idle" /\ hook.isOnline
  /\ hook' = [hook EXCEPT !.isOnline = FALSE, !.toasts = <<Toast(<<"You are offline. Some features may be unavailable.">>, "info")>>]
  /\ UNCHANGED <<mainVars, boot, relay, listItem>>

\* ----------------------------------------------------------------- Init
Init ==
  /\ storage \in InitialEntries
  /\ lists = initialLists(storage)
  /\ effectDue = TRUE
  /\ shown = <<>>
  /\ now = StartClock
  /\ isRegrouping = FALSE
  /\ showRegroupPreview = FALSE
  /\ suggestedRegrouping = NullSuggestion
  /\ regroupCall = NoCall
  /\ genCalls = {}
  /\ drawn = 0
  /\ ops = 0
  /\ last = Did("init", "")
  /\ boot = Idle
  /\ relay = Idle
  /\ hook = Idle
  /\ listItem = Idle

regroupVars == <<isRegrouping, showRegroupPreview, suggestedRegrouping, regroupCall>>

\* React runs the save effect of a render before it handles the next event; the
\* re-run that the toast of a failed save asks for is scheduled like any other
\* render, so events are handled before it
Ready == ~effectDue \/ last = Did("save", "threw")

\* -------------------------------------------------------------- actions
\* the millisecond clock advances
Tick ==
  /\ now < StartClock + MaxClock
  /\ now' = now + 1
  /\ UNCHANGED <<lists, storage, effectDue, shown, regroupVars, genCalls, ops, last, drawn, sideVars>>

\* the save effect with the write left out
SaveEffectMutNoWrite ==
  /\ effectDue
  /\ storage' = storage
  /\ shown' = <<>>
  /\ effectDue' = FALSE
  /\ last' = Did("save", "ok")
  /\ UNCHANGED <<lists, now, regroupVars, genCalls, ops, drawn, sideVars>>

\* the save effect clearing the entry before a write that throws
SaveEffectMutRemoveFirst ==
  /\ effectDue
  /\ \E threw \in BOOLEAN :
       IF ~threw
       THEN /\ storage' = JSONstringify(lists)
            /\ shown' = <<>>
            /\ effectDue' = FALSE
            /\ ops' = ops
            /\ last' = Did("save", "ok")
       ELSE /\ ops < MaxOps
            /\ storage' = NoEntry
            /\ shown' = <<Toast("Failed to save lists to local storage.", "error")>>
            /\ effectDue' = TRUE
            /\ ops' = ops + 1
            /\ last' = Did("save", "threw")
  /\ UNCHANGED <<lists, now, regroupVars, genCalls, drawn, sideVars>>

\* ListProvider save effect: runs after a render whose lists or showToast changed
SaveEffect ==
  /\ effectDue
  /\ \E threw \in BOOLEAN :
       IF ~threw
       THEN /\ storage' = JSONstringify(lists)
            /\ shown' = <<>>
            /\ effectDue' = FALSE
            /\ ops' = ops
            /\ last' = Did("save", "ok")
       ELSE /\ ops < MaxOps
            /\ storage' = storage
            /\ shown' = <<Toast("Failed to save lists to local storage.", "error")>>
            /\ effectDue' = TRUE
            /\ ops' = ops + 1
            /\ last' = Did("save", "threw")
  /\ UNCHANGED <<lists, now, regroupVars, genCalls, drawn, sideVars>>

AddList ==
  /\ Ready /\ ops < MaxOps
  /\ Len(lists) < MaxLists
  /\ lists' = addList(lists, now)
  /\ shown' = <<Toast("New list added", "success")>>
  /\ effectDue' = TRUE
  /\ ops' = ops + 1
  /\ last' = Did("addList", "")
  /\ UNCHANGED <<storage, now, regroupVars, genCalls, drawn, sideVars>>

AddItem ==
  /\ Ready /\ ops < MaxOps
  /\ SumLen(lists) < MaxItems
  /\ \E i \in 1..Len(lists) :
       /\ lists' = addItem(lists, i, now)
       /\ last' = DidAt("addItem", i, DateNowString(now), "")
  /\ shown' = <<>>
  /\ effectDue' = TRUE
  /\ ops' = ops + 1
  /\ UNCHANGED <<storage, now, regroupVars, genCalls, drawn, sideVars>>

\* the texts the user types
EditValues == {"buy milk"}

\* ListItem: only an item that is not completed enters edit mode
UpdateItem ==
  /\ Ready /\ ops < MaxOps
  /\ \E i \in 1..Len(lists) : \E k \in 1..Len(lists[i].items) : \E v \in EditValues :
       /\ ~lists[i].items[k].completed
       /\ lists' = updateItem(lists, i, lists[i].items[k].id, v)
       /\ last' = DidAt("updateItem", i, lists[i].items[k].id, v)
  /\ shown' = <<>>
  /\ effectDue' = TRUE
  /\ ops' = ops + 1
  /\ UNCHANGED <<storage, now, regroupVars, genCalls, drawn, sideVars>>

UpdateTitle ==
  /\ Ready /\ ops < MaxOps
  /\ \E i \in 1..Len(lists) :
       /\ lists' = updateTitle(lists, i, "Groceries")
       /\ last' = DidAt("updateTitle", i, "", "Groceries")
  /\ shown' = <<>>
  /\ effectDue' = TRUE
  /\ ops' = ops + 1
  /\ UNCHANGED <<storage, now, regroupVars, genCalls, drawn, sideVars>>

\* Reorder.Group onReorder: the displayed (sorted) order with two neighbours swapped
ReorderItems ==
  /\ Ready /\ ops < MaxOps
  /\ \E i \in 1..Len(lists) : \E p \in 1..(Len(lists[i].items) - 1) :
       /\ lists' = reorderItems(lists, i, SwapAdjacent(sortedItems(lists[i].items), p))
       /\ last' = DidAt("reorderItems", i, "", "")
  /\ shown' = <<>>
  /\ effectDue' = TRUE
  /\ ops' = ops + 1
  /\ UNCHANGED <<storage, now, regroupVars, genCalls, drawn, sideVars>>

DeleteItem ==
  /\ Ready /\ ops < MaxOps
  /\ \E i \in 1..Len(lists) : \E k \in 1..Len(lists[i].items) :
       /\ lists' = deleteItem(lists, i, lists[i].items[k].id)
       /\ last' = DidAt("deleteItem", i, lists[i].items[k].id, "")
  /\ shown' = <<>>
  /\ effectDue' = TRUE
  /\ ops' = ops + 1
  /\ UNCHANGED <<storage, now, regroupVars, genCalls, drawn, sideVars>>

ToggleComplete ==
  /\ Ready /\ ops < MaxOps
  /\ \E i \in 1..Len(lists) : \E k \in 1..Len(lists[i].items) :
       /\ lists' = toggleComplete(lists, i, lists[i].items[k].id)
       /\ last' = DidAt("toggleComplete", i, lists[i].items[k].id, "")
  /\ shown' = <<>>
  /\ effectDue' = TRUE
  /\ ops' = ops + 1
  /\ UNCHANGED <<storage, now, regroupVars, genCalls, drawn, sideVars>>

\* the collection clearAllData installs once the user has confirmed
clearedLists == <<>>

\* clearAllData: window.confirm answers confirmed
ClearAllData ==
  /\ Ready /\ ops < MaxOps
  /\ \E confirmed \in BOOLEAN :
       IF confirmed
       THEN /\ storage' = NoEntry
            /\ lists' = clearedLists
            /\ shown' = <<Toast("All lists have been cleared.", "info")>>
            /\ effectDue' = TRUE
            /\ last' = Did("clearAllData", "confirmed")
       ELSE /\ UNCHANGED <<storage, lists, effectDue>>
            /\ shown' = <<>>
            /\ last' = Did("clearAllData", "declined")
  /\ ops' = ops + 1
  /\ UNCHANGED <<now, regroupVars, genCalls, drawn, sideVars>>

\* ------------------------------------------------------ regroup flow
\* regroupListsWithAI behind a button that is disabled only while there is no list
RegroupStartMutEnabled ==
  /\ Ready /\ ops < MaxOps
  /\ Len(lists) # 0
  /\ IF Len(lists) = 0
     THEN /\ shown' = <<Toast("Add some lists before regrouping.", "info")>>
          /\ effectDue' = TRUE
          /\ last' = Did("regroupStart", "nolists")
          /\ UNCHANGED regroupVars
     ELSE IF SumLen(lists) = 0
     THEN /\ shown' = <<Toast("Failed to regroup lists: No items to regroup. Please add some items first.", "error")>>
          /\ effectDue' = TRUE
          /\ isRegrouping' = FALSE
          /\ suggestedRegrouping' = NullSuggestion
          /\ showRegroupPreview' = FALSE
          /\ regroupCall' = NoCall
          /\ last' = Did("regroupStart", "noitems")
     ELSE /\ shown' = <<>>
          /\ effectDue' = effectDue
          /\ isRegrouping' = TRUE
          /\ suggestedRegrouping' = NullSuggestion
          /\ showRegroupPreview' = FALSE
          /\ regroupCall' = [active |-> TRUE, lists |-> lists]
          /\ last' = Did("regroupStart", "sent")
  /\ ops' = ops + 1
  /\ UNCHANGED <<lists, storage, now, genCalls, drawn, sideVars>>

\* regroupListsWithAI up to its await.  The Regroup button is disabled while
\* isRegrouping, while the preview is shown, and while there is no list.
RegroupStart ==
  /\ Ready /\ ops < MaxOps
  /\ ~isRegrouping /\ ~showRegroupPreview /\ Len(lists) # 0
  /\ IF Len(lists) = 0
     THEN /\ shown' = <<Toast("Add some lists before regrouping.", "info")>>
          /\ effectDue' = TRUE
          /\ last' = Did("regroupStart", "nolists")
          /\ UNCHANGED regroupVars
     ELSE IF SumLen(lists) = 0
     THEN /\ shown' = <<Toast("Failed to regroup lists: No items to regroup. Please add some items first.", "error")>>
          /\ effectDue' = TRUE
          /\ isRegrouping' = FALSE
          /\ suggestedRegrouping' = NullSuggestion
          /\ showRegroupPreview' = FALSE
          /\ regroupCall' = NoCall
          /\ last' = Did("regroupStart", "noitems")
     ELSE /\ shown' = <<>>
          /\ effectDue' = effectDue
          /\ isRegrouping' = TRUE
          /\ suggestedRegrouping' = NullSuggestion
          /\ showRegroupPreview' = FALSE
          /\ regroupCall' = [active |-> TRUE, lists |-> lists]
          /\ last' = Did("regroupStart", "sent")
  /\ ops' = ops + 1
  /\ UNCHANGED <<lists, storage, now, genCalls, drawn, sideVars>>

\* regroupListsWithAI from the await on: execute() has settled with result
RegroupSettle ==
  /\ Ready /\ ops < MaxOps
  /\ regroupCall.active
  /\ \E result \in {NoResult} \cup Replies(regroupCall.lists) :
       LET out == regroupOutcome(result, regroupCall.lists, now, Draws(drawn)) IN
       IF out.err = ""
       THEN /\ suggestedRegrouping' = Suggestion(out.lists)
            /\ drawn' = drawn + Len(out.lists)
            /\ showRegroupPreview' = TRUE
            /\ shown' = <<>>
            /\ effectDue' = effectDue
            /\ last' = DidReply("regroupSettle", 0, "", "preview", result)
       ELSE /\ suggestedRegrouping' = NullSuggestion
            /\ showRegroupPreview' = FALSE
            /\ drawn' = drawn
            /\ shown' = (IF result.isNull THEN <<Toast("API Error", "error")>> ELSE <<>>) \o <<Toast("Failed to regroup lists: " \o out.err, "error")>>
            /\ effectDue' = TRUE
            /\ last' = DidReply("regroupSettle", 0, "", out.err, result)
  /\ isRegrouping' = FALSE
  /\ regroupCall' = NoCall
  /\ ops' = ops + 1
  /\ UNCHANGED <<lists, storage, now, genCalls, sideVars>>

\* replaceLists(newLists)
replaceLists(ls, newLists) == newLists

\* handleConfirmRegroup: the Confirm button of the preview modal
HandleConfirmRegroup ==
  /\ Ready /\ ops < MaxOps
  /\ showRegroupPreview /\ suggestedRegrouping.some
  /\ IF suggestedRegrouping.some
     THEN /\ lists' = replaceLists(lists, suggestedRegrouping.lists)
          /\ shown' = <<Toast("Lists updated successfully", "success"), Toast("Lists regrouped successfully!", "success")>>
          /\ last' = Did("confirmRegroup", "applied")
     ELSE /\ lists' = lists
          /\ shown' = <<Toast("Error applying regrouping: No suggestion found.", "error")>>
          /\ last' = Did("confirmRegroup", "nosuggestion")
  /\ effectDue' = TRUE
  /\ suggestedRegrouping' = NullSuggestion
  /\ showRegroupPreview' = FALSE
  /\ ops' = ops + 1
  /\ UNCHANGED <<storage, now, isRegrouping, regroupCall, genCalls, drawn, sideVars>>

\* the Cancel button wired to apply the suggestion
HandleCancelRegroupMutApply ==
  /\ Ready /\ ops < MaxOps
  /\ showRegroupPreview /\ suggestedRegrouping.some
  /\ lists' = suggestedRegrouping.lists
  /\ suggestedRegrouping' = NullSuggestion
  /\ showRegroupPreview' = FALSE
  /\ shown' = <<Toast("Regrouping cancelled.", "info")>>
  /\ effectDue' = TRUE
  /\ ops' = ops + 1
  /\ last' = Did("cancelRegroup", "")
  /\ UNCHANGED <<storage, now, isRegrouping, regroupCall, genCalls, drawn, sideVars>>

\* handleCancelRegroup: the Cancel button of the preview modal
HandleCancelRegroup ==
  /\ Ready /\ ops < MaxOps
  /\ showRegroupPreview /\ suggestedRegrouping.some
  /\ suggestedRegrouping' = NullSuggestion
  /\ showRegroupPreview' = FALSE
  /\ shown' = <<Toast("Regrouping cancelled.", "info")>>
  /\ effectDue' = TRUE
  /\ ops' = ops + 1
  /\ last' = Did("cancelRegroup", "")
  /\ UNCHANGED <<lists, storage, now, isRegrouping, regroupCall, genCalls, drawn, sideVars>>

\* ----------------------------------------------------- generate flow
\* the entries of a reply to the generate prompt; "" is the falsy result
GenReplies == {<<>>, <<"buy milk">>, <<" z ", "">>, <<"buy milk", "   ">>, <<"buy milk", " z ">>, <<"x", "y", "", "z">>}

\* items.filter(...).map(...): the new items of a reply
newItems(entries, t, rs) == [k \in 1..Len(SelectSeq(entries, LAMBDA e : Trim(e) # "")) |-> Item("item-" \o DateNowString(t) \o "-" \o rs[k], Trim(SelectSeq(entries, LAMBDA e : Trim(e) # "")[k]), FALSE)]

\* the List component of list id is waiting for its generate call
isGenerating(listId) == \E c \in genCalls : c.listId = listId

\* generateItems up to its await; the button is disabled while isGenerating
GenerateStart ==
  /\ Ready /\ ops < MaxOps
  /\ Cardinality(genCalls) < MaxGenCalls
  /\ \E i \in 1..Len(lists) :
       /\ ~isGenerating(lists[i].id)
       /\ genCalls' = genCalls \cup {[listIndex |-> i, listId |-> lists[i].id, lists |-> lists]}
       /\ last' = DidAt("generateStart", i, "", "")
  /\ shown' = <<>>
  /\ ops' = ops + 1
  /\ UNCHANGED <<lists, storage, effectDue, now, regroupVars, drawn, sideVars>>

\* generateItems from the await on, for the call c: it appends to the list it
\* was started on and writes the collection it was started on
GenerateSettle ==
  /\ Ready /\ ops < MaxOps
  /\ \E c \in genCalls :
       /\ genCalls' = genCalls \ {c}
       /\ \E failed \in BOOLEAN : \E entries \in GenReplies :
            IF failed
            THEN /\ entries = <<>>
                 /\ lists' = lists
                 /\ drawn' = drawn
                 /\ shown' = <<Toast("API Error", "error"), Toast("Failed to generate items. Please try again.", "error")>>
                 /\ last' = DidAt("generateSettle", c.listIndex, "", "failed")
            ELSE /\ lists' = reorderItems(c.lists, c.listIndex, c.lists[c.listIndex].items \o newItems(entries, now, Draws(drawn)))
                 /\ drawn' = drawn + Len(newItems(entries, now, Draws(drawn)))
                 /\ shown' = <<Toast("Items generated successfully!", "success")>>
                 /\ last' = DidReply("generateSettle", c.listIndex, "", "generated", Reply(Absent, "", Arr(entries)))
  /\ effectDue' = TRUE
  /\ ops' = ops + 1
  /\ UNCHANGED <<storage, now, regroupVars, sideVars>>

\* ------------------------------------------------------ specification
Next ==
  \/ Tick
  \/ SaveEffect
  \/ AddList
  \/ AddItem
  \/ UpdateItem
  \/ UpdateTitle
  \/ ReorderItems
  \/ DeleteItem
  \/ ToggleComplete
  \/ ClearAllData
  \/ RegroupStart
  \/ RegroupSettle
  \/ HandleConfirmRegroup
  \/ HandleCancelRegroup
  \/ GenerateStart
  \/ GenerateSettle

Spec == Init /\ [][Next]_vars

\* ------------------------------------------- specification of the start
\* the running application is not part of the side specifications
MainAtRest ==
  /\ storage = NoEntry
  /\ lists = getDefaultLists
  /\ effectDue = TRUE
  /\ shown = <<>>
  /\ now = StartClock
  /\ isRegrouping = FALSE
  /\ showRegroupPreview = FALSE
  /\ suggestedRegrouping = NullSuggestion
  /\ regroupCall = NoCall
  /\ genCalls = {}
  /\ drawn = 0
  /\ ops = 0
  /\ last = Did("init", "")

InitStart ==
  /\ boot \in {Stored(e) : e \in BootEntries}
  /\ relay = Idle
  /\ hook = Idle
  /\ listItem = Idle
  /\ MainAtRest

NextStart == Mount

SpecStart == InitStart /\ [][NextStart]_vars

\* ------------------------------------------- specification of the relay
InitRelay ==
  /\ relay \in RelayRequests
  /\ boot = Idle
  /\ hook = Idle
  /\ listItem = Idle
  /\ MainAtRest

NextRelay ==
  \/ NetlifyHandle
  \/ BunHandle

SpecRelay == InitRelay /\ [][NextRelay]_vars

\* ---------------------------------------- specification of the API hook
InitHook ==
  /\ hook \in {HookIdle(isOnline, responseFormat) : isOnline \in BOOLEAN, responseFormat \in {"json", "text"}}
  /\ boot = Idle
  /\ relay = Idle
  /\ listItem = Idle
  /\ MainAtRest

NextHook ==
  \/ ExecuteStart
  \/ ExecuteSettle
  \/ HandleOnline
  \/ HandleOffline

SpecHook == InitHook /\ [][NextHook]_vars

\* --------------------- specification of the AI flows and of their hook
\* the regroup and generate flows see the hook only through the value execute
\* returns, so the two are run side by side, each from its own initial states
InitAI == Init \/ InitHook

NextAI ==
  \/ hook = Idle /\ Next
  \/ hook # Idle /\ NextHook

SpecAI == InitAI /\ [][NextAI]_vars

\* ------------- specification of the regroup flow and of a direct call
\* handleConfirmRegroup is reachable only through the Confirm button of the
\* preview; to see what it does in the other states of its component it is
\* also called directly, on every setting of the three flags of the flow
DirectCall == [phase |-> "direct"]

FlowSettings == [isRegrouping : BOOLEAN, showRegroupPreview : BOOLEAN, suggestedRegrouping : {NullSuggestion, Suggestion(StoredLists), Suggestion(getDefaultLists)}]

\* the collections of the direct calls: with items, without lists, and with a
\* list that has no item
DirectCollections == {getDefaultLists, StoredLists, <<>>, <<ListData("7", "New List", <<>>)>>}

InitDirect ==
  /\ boot = DirectCall /\ relay = Idle /\ hook = Idle
  /\ listItem = Idle
  /\ storage = NoEntry
  /\ lists \in DirectCollections
  /\ effectDue = FALSE
  /\ shown = <<>>
  /\ now = StartClock
  /\ \E f \in FlowSettings : isRegrouping = f.isRegrouping /\ showRegroupPreview = f.showRegroupPreview /\ suggestedRegrouping = f.suggestedRegrouping
  /\ regroupCall = NoCall
  /\ genCalls = {}
  /\ drawn = 0
  /\ ops = 0
  /\ last = Did("init", "")

\* handleConfirmRegroup applying whatever the candidate state holds, silently
ConfirmCallMutNoTest ==
  /\ boot = DirectCall /\ last.op = "init"
  /\ lists' = replaceLists(lists, suggestedRegrouping.lists)
  /\ shown' = <<>>
  /\ last' = Did("confirmRegroup", IF suggestedRegrouping.some THEN "applied" ELSE "nosuggestion")
  /\ effectDue' = TRUE
  /\ suggestedRegrouping' = NullSuggestion
  /\ showRegroupPreview' = FALSE
  /\ ops' = ops + 1
  /\ UNCHANGED <<storage, now, isRegrouping, regroupCall, genCalls, drawn, sideVars>>

\* handleConfirmRegroup called in the state it is given
ConfirmCall ==
  /\ boot = DirectCall /\ last.op = "init"
  /\ IF suggestedRegrouping.some
     THEN /\ lists' = replaceLists(lists, suggestedRegrouping.lists)
          /\ shown' = <<Toast("Lists updated successfully", "success"), Toast("Lists regrouped successfully!", "success")>>
          /\ last' = Did("confirmRegroup", "applied")
     ELSE /\ lists' = lists
          /\ shown' = <<Toast("Error applying regrouping: No suggestion found.", "error")>>
          /\ last' = Did("confirmRegroup", "nosuggestion")
  /\ effectDue' = TRUE
  /\ suggestedRegrouping' = NullSuggestion
  /\ showRegroupPreview' = FALSE
  /\ ops' = ops + 1
  /\ UNCHANGED <<storage, now, isRegrouping, regroupCall, genCalls, drawn, sideVars>>

\* regroupListsWithAI sending the call whatever the collection holds
RegroupCallMutNoTests ==
  /\ boot = DirectCall /\ last.op = "init"
  /\ shown' = <<>>
  /\ effectDue' = effectDue
  /\ isRegrouping' = TRUE
  /\ suggestedRegrouping' = NullSuggestion
  /\ showRegroupPreview' = FALSE
  /\ regroupCall' = [active |-> TRUE, lists |-> lists]
  /\ last' = Did("regroupStart", "sent")
  /\ ops' = ops + 1
  /\ UNCHANGED <<lists, storage, now, genCalls, drawn, sideVars>>

\* regroupListsWithAI up to its await, called in the state it is given
RegroupCall ==
  /\ boot = DirectCall /\ last.op = "init"
  /\ IF Len(lists) = 0
     THEN /\ shown' = <<Toast("Add some lists before regrouping.", "info")>>
          /\ effectDue' = TRUE
          /\ last' = Did("regroupStart", "nolists")
          /\ UNCHANGED regroupVars
     ELSE IF SumLen(lists) = 0
     THEN /\ shown' = <<Toast("Failed to regroup lists: No items to regroup. Please add some items first.", "error")>>
          /\ effectDue' = TRUE
          /\ isRegrouping' = FALSE
          /\ suggestedRegrouping' = NullSuggestion
          /\ showRegroupPreview' = FALSE
          /\ regroupCall' = NoCall
          /\ last' = Did("regroupStart", "noitems")
     ELSE /\ shown' = <<>>
          /\ effectDue' = effectDue
          /\ isRegrouping' = TRUE
          /\ suggestedRegrouping' = NullSuggestion
          /\ showRegroupPreview' = FALSE
          /\ regroupCall' = [active |-> TRUE, lists |-> lists]
          /\ last' = Did("regroupStart", "sent")
  /\ ops' = ops + 1
  /\ UNCHANGED <<lists, storage, now, genCalls, drawn, sideVars>>

InitFlow == Init \/ InitDirect

NextFlow ==
  \/ boot = Idle /\ Next
  \/ ConfirmCall
  \/ RegroupCall

SpecFlow == InitFlow /\ [][NextFlow]_vars

\* ------------------------- specification of the CRUD operations alone
\* the operations of the context called directly, with every list index from
\* one below the first to one above the last and with every item id of the
\* collection and one that no item has
CrudCollections == DirectCollections

CrudIndexes(ls) == 0..(Len(ls) + 1)

CrudIds(ls) == ItemIds(ls) \cup {FabricatedId}

\* the operation op of the context on collection ls
applyCrud(op, ls, listIndex, itemId, t) ==
  CASE op = "addItem" -> addItem(ls, listIndex, t)
    [] op = "updateItem" -> updateItem(ls, listIndex, itemId, "buy milk")
    [] op = "updateTitle" -> updateTitle(ls, listIndex, "Errands")
    [] op = "reorderItems" -> reorderItems(ls, listIndex, <<>>)
    [] op = "deleteItem" -> deleteItem(ls, listIndex, itemId)
    [] op = "toggleComplete" -> toggleComplete(ls, listIndex, itemId)

InitCrud ==
  /\ boot = DirectCall /\ relay = Idle /\ hook = Idle
  /\ listItem = Idle
  /\ storage = NoEntry
  /\ lists \in CrudCollections
  /\ effectDue = FALSE
  /\ shown = <<>>
  /\ now = StartClock
  /\ isRegrouping = FALSE /\ showRegroupPreview = FALSE /\ suggestedRegrouping = NullSuggestion
  /\ regroupCall = NoCall
  /\ genCalls = {}
  /\ drawn = 0
  /\ ops = 0
  /\ last = Did("init", "")

CrudCall ==
  /\ boot = DirectCall /\ last.op = "init"
  /\ \E op \in {"addItem", "updateItem", "updateTitle", "reorderItems", "deleteItem", "toggleComplete"} :
       \E listIndex \in CrudIndexes(lists) : \E itemId \in CrudIds(lists) :
         /\ lists' = applyCrud(op, lists, listIndex, itemId, now)
         /\ last' = DidAt(op, listIndex, itemId, "")
  /\ effectDue' = TRUE
  /\ shown' = <<>>
  /\ ops' = ops + 1
  /\ UNCHANGED <<storage, now, regroupVars, genCalls, drawn, sideVars>>

NextCrud == CrudCall

SpecCrud == InitCrud /\ [][NextCrud]_vars

\* ------------------------------ specification of the ListItem component
\* the number of events the component handles
MaxEvents == 4

\* the items the component is given
ShownItems == {Item("item-1", "add item and save using the buttons", FALSE), Item("item-5", "completed item looks like this", TRUE), Item("10", "", FALSE)}

\* the texts the user types into the input
TypedTexts == {"", "buy milk", " z "}

\* the keys of onKeyDown
Keys == {"Enter", "Escape", "a"}

\* no call of onUpdate
NoUpdate == [called |-> FALSE, itemId |-> "", newValue |-> ""]

\* onUpdate(itemId, newValue)
onUpdate(itemId, newValue) == [called |-> TRUE, itemId |-> itemId, newValue |-> newValue]

\* the component after its mount: useState(false), useState(item.value)
ListItemMounted(item) == [phase |-> "mounted", item |-> item, isEditing |-> FALSE, inputValue |-> item.value, events |-> 0, handler |-> "", key |-> "", update |-> NoUpdate]

\* the item prop after the parent has run the onUpdate call: updateItem of the
\* context on the list that holds the item
ItemAfter(item, update) == IF update.called THEN updateItem(<<ListData("list-1", "0.0 Inda 101", <<item>>)>>, 1, update.itemId, update.newValue)[1].items[1] ELSE item

handleDoubleClick(c) == IF ~c.item.completed THEN [c EXCEPT !.isEditing = TRUE, !.inputValue = c.item.value, !.update = NoUpdate] ELSE [c EXCEPT !.update = NoUpdate]

handleEditComplete(c) == [c EXCEPT !.update = onUpdate(c.item.id, c.inputValue), !.item = ItemAfter(c.item, onUpdate(c.item.id, c.inputValue)), !.isEditing = FALSE]

handleBlur(c) == handleEditComplete(c)

\* handleKeyDown completing the edit on Escape as well
handleKeyDownMutEscapeSaves(c, key) == IF key = "Enter" \/ key = "Escape" THEN handleEditComplete(c) ELSE [c EXCEPT !.update = NoUpdate]

handleKeyDown(c, key) == IF key = "Enter" THEN handleEditComplete(c) ELSE IF key = "Escape" THEN [c EXCEPT !.inputValue = c.item.value, !.isEditing = FALSE, !.update = NoUpdate] ELSE [c EXCEPT !.update = NoUpdate]

\* the event handler ran: counted and named
Handled(c, name, key) == [c EXCEPT !.events = @ + 1, !.handler = name, !.key = key]

\* the text div is rendered while the component is not editing
DoubleClick ==
  /\ listItem.events < MaxEvents /\ ~listItem.isEditing
  /\ listItem' = Handled(handleDoubleClick(listItem), "doubleClick", "")
  /\ UNCHANGED <<mainVars, boot, relay, hook>>

\* the input is rendered while the component is editing
Change ==
  /\ listItem.events < MaxEvents /\ listItem.isEditing
  /\ \E text \in TypedTexts : listItem' = Handled([listItem EXCEPT !.inputValue = text, !.update = NoUpdate], "change", "")
  /\ UNCHANGED <<mainVars, boot, relay, hook>>

KeyDown ==
  /\ listItem.events < MaxEvents /\ listItem.isEditing
  /\ \E key \in Keys : listItem' = Handled(handleKeyDown(listItem, key), "keyDown", key)
  /\ UNCHANGED <<mainVars, boot, relay, hook>>

Blur ==
  /\ listItem.events < MaxEvents /\ listItem.isEditing
  /\ listItem' = Handled(handleBlur(listItem), "blur", "")
  /\ UNCHANGED <<mainVars, boot, relay, hook>>

\* the toggle button is rendered while the component is not editing; the
\* parent inverts the flag of the item
ToggleClick ==
  /\ listItem.events < MaxEvents /\ ~listItem.isEditing
  /\ listItem' = Handled([listItem EXCEPT !.item = toggleComplete(<<ListData("list-1", "0.0 Inda 101", <<listItem.item>>)>>, 1, listItem.item.id)[1].items[1], !.update = NoUpdate], "toggle", "")
  /\ UNCHANGED <<mainVars, boot, relay, hook>>

\* the parent renders the component with the item changed by an operation of
\* the application (a regrouping applied, a generation settled on the lists of
\* its start); the state of the component is kept
ItemRendered ==
  /\ listItem.events < MaxEvents
  /\ \E value \in {listItem.item.value, "regrouped"}, completed \in BOOLEAN :
       /\ Item(listItem.item.id, value, completed) # listItem.item
       /\ listItem' = Handled([listItem EXCEPT !.item = Item(listItem.item.id, value, completed), !.update = NoUpdate], "render", "")
  /\ UNCHANGED <<mainVars, boot, relay, hook>>

InitItem ==
  /\ listItem \in {ListItemMounted(item) : item \in ShownItems}
  /\ boot = Idle /\ relay = Idle /\ hook = Idle
  /\ MainAtRest

NextItem ==
  \/ DoubleClick
  \/ Change
  \/ KeyDown
  \/ Blur
  \/ ToggleClick
  \/ ItemRendered

SpecItem == InitItem /\ [][NextItem]_vars

\* =============================================================== claims
\* a step of the handler op
Step(op) == ops' = ops + 1 /\ last'.op = op

\* both collections hold every item id the same number of times
SameIdBag(a, b) == \A id \in ItemIds(a) \cup ItemIds(b) : IdCount(a, id) = IdCount(b, id)

LostItemsMessage == "Some items were lost during regrouping. Operation cancelled."

\* the reply reconciles (parseAIResponse returns) against collection ls
Reconciles(reply, ls) == ~reply.isNull /\ parseAIResponse(reply, ls, 0, [k \in 1..Len(normalize(reply).cats) |-> "r"]).err = ""

\* total number of items of the reconciled lists
ReconciledTotal(reply, ls) == SumLen(parseAIResponse(reply, ls, 0, [k \in 1..Len(normalize(reply).cats) |-> "r"]).lists)

\* C1: whenever a regroup call ends with a candidate stored for preview, the
\* candidate holds every item id of the collection the call was started on
\* exactly as often as that collection does (same multiset of ids).
C1_RegroupConservesIds == [][(regroupCall.active /\ suggestedRegrouping'.some) => SameIdBag(regroupCall.lists, suggestedRegrouping'.lists)]_vars

\* C2: when the reconciled lists hold another number of items than the
\* collection the call was started on, the call aborts: the collection is
\* unchanged, no candidate is stored or previewed, and the lost-items error
\* is shown.
C2_LostItemsAbort == [][(regroupCall.active /\ Step("regroupSettle") /\ Reconciles(last'.reply, regroupCall.lists) /\ ReconciledTotal(last'.reply, regroupCall.lists) # SumLen(regroupCall.lists)) => (lists' = lists /\ ~suggestedRegrouping'.some /\ ~showRegroupPreview' /\ ~isRegrouping' /\ Toast("Failed to regroup lists: " \o LostItemsMessage, "error") \in Range(shown'))]_vars

\* a regroup call was aborted for lost items
C2_Witness == last.op = "regroupSettle" /\ last.outcome = LostItemsMessage /\ Reconciles(last.reply, lists) /\ ReconciledTotal(last.reply, lists) < SumLen(lists) /\ ~suggestedRegrouping.some

\* C3: a regroup call that settles leaves the collection as it is; the
\* collection becomes the candidate in a handleConfirmRegroup step and in no
\* other step; handleCancelRegroup drops the candidate and leaves the
\* collection as it is.
C3_PreviewThenConfirm == [][/\ (regroupCall.active /\ Step("regroupSettle") => lists' = lists)
     /\ (Step("confirmRegroup") /\ suggestedRegrouping.some => lists' = suggestedRegrouping.lists /\ ~suggestedRegrouping'.some /\ ~showRegroupPreview')
     /\ (Step("cancelRegroup") => lists' = lists /\ ~suggestedRegrouping'.some /\ ~showRegroupPreview')
     /\ (suggestedRegrouping.some /\ lists' # lists /\ lists' = suggestedRegrouping.lists => Step("confirmRegroup"))]_vars

\* a previewed two-category candidate was confirmed and is the collection
C3_Witness == last.op = "confirmRegroup" /\ last.outcome = "applied" /\ Len(lists) = 2 /\ SumLen(lists) = 4 /\ lists[1].title = "Errands"

\* C4: no two items of the collection have the same id.
C4_UniqueItemIds == \A id \in ItemIds(lists) : IdCount(lists, id) = 1

CrudOps == {"addItem", "updateItem", "updateTitle", "reorderItems", "deleteItem", "toggleComplete"}

\* C5: a step of addItem, updateItem, updateTitle, reorderItems, deleteItem or
\* toggleComplete called with list index i yields a collection of the same
\* length in which every list at another index is the list it was.
C5_OnlyTargetListReplaced == [][(\E op \in CrudOps : Step(op)) => (Len(lists') = Len(lists) /\ \A j \in 1..Len(lists) : j # last'.idx => lists'[j] = lists[j])]_vars

\* an item was added to the second of two lists and the first is as stored
C5_Witness == last.op = "addItem" /\ last.idx = 2 /\ Len(lists) = 2 /\ lists[1] = StoredLists[1] /\ Len(lists[2].items) = 1

\* C6: an addItem step adds exactly the new id to the set of item ids, a
\* deleteItem step removes exactly the deleted id from it, and updateItem,
\* reorderItems and toggleComplete steps leave the set as it is.
C6_IdsAddedMinusDeleted == [][/\ (Step("addItem") => ItemIds(lists') = ItemIds(lists) \cup {last'.id})
     /\ (Step("deleteItem") => ItemIds(lists') = ItemIds(lists) \ {last'.id})
     /\ ((Step("updateItem") \/ Step("reorderItems") \/ Step("toggleComplete")) => ItemIds(lists') = ItemIds(lists))]_vars

\* the items of list i with the flag of every item of id itemId inverted
Toggled(items, itemId) == [k \in 1..Len(items) |-> IF items[k].id = itemId THEN Item(items[k].id, items[k].value, ~items[k].completed) ELSE items[k]]

\* C7: a toggleComplete(i, id) step inverts the completed flag of the item of
\* that id in list i and changes nothing else; on the default collection
\* (1 list, 4 items, 1 completed) toggling the completed item gives
\* completed = false; toggling an item twice gives the collection back.
C7_ToggleInverts == [][Step("toggleComplete") => lists' = [lists EXCEPT ![last'.idx] = ListData(@.id, @.title, Toggled(@.items, last'.id))]]_vars
  /\ [](/\ Len(getDefaultLists) = 1 /\ Len(getDefaultLists[1].items) = 4
        /\ Cardinality({k \in 1..4 : getDefaultLists[1].items[k].completed}) = 1
        /\ toggleComplete(getDefaultLists, 1, "item-5")[1].items[4] = Item("item-5", "completed item looks like this", FALSE)
        /\ \A i \in 1..Len(lists) : \A k \in 1..Len(lists[i].items) : toggleComplete(toggleComplete(lists, i, lists[i].items[k].id), i, lists[i].items[k].id) = lists)

\* the completed item of the default collection was toggled
C7_Witness == last.op = "toggleComplete" /\ last.id = "item-5" /\ lists = [getDefaultLists EXCEPT ![1].items[4].completed = FALSE]

\* C8: a confirmed clearAllData makes the collection the default collection;
\* a declined one leaves the collection and the stored entry as they are.
C8_ResetToDefault == [][/\ (Step("clearAllData") /\ last'.outcome = "confirmed" => lists' = getDefaultLists)
     /\ (Step("clearAllData") /\ last'.outcome = "declined" => lists' = lists /\ storage' = storage)]_vars

\* C9: whenever no save is due (the save effect ran after the last change and
\* did not throw), the stored entry is the serialisation of the collection.
C9_StoredIsCollection == ~effectDue => storage = JSONstringify(lists)

\* a collection changed in this session has been saved
C9_Witness == ~effectDue /\ last = Did("save", "ok") /\ ops > 0 /\ lists # getDefaultLists /\ lists # StoredLists /\ storage = JSONstringify(lists)

\* C10: a save that throws leaves the collection and the stored entry as they
\* are and shows the error; the handlers stay enabled afterwards.
C10_SaveFailureCaught == [][Step("save") => (lists' = lists /\ storage' = storage /\ Toast("Failed to save lists to local storage.", "error") \in Range(shown') /\ Ready')]_vars
  /\ []((last = Did("save", "threw") /\ ops < MaxOps) => ENABLED ClearAllData)

\* after a save that threw, the collection differs from the stored entry
C10_Witness == last = Did("save", "threw") /\ ops > 1 /\ storage # NoEntry /\ storage # JSONstringify(lists)

\* the JSON value has the shape of an Item
IsItemValue(v) == v.t = "obj" /\ Member(v, <<"id">>).t = "str" /\ Member(v, <<"value">>).t = "str" /\ Member(v, <<"completed">>).t = "bool"

\* the JSON value has the shape of a ListData
IsListValue(v) == v.t = "obj" /\ Member(v, <<"id">>).t = "str" /\ Member(v, <<"title">>).t = "str" /\ Member(v, <<"items">>).t = "arr" /\ \A k \in 1..Len(Member(v, <<"items">>).a) : IsItemValue(Member(v, <<"items">>).a[k])

\* the text is the serialisation of a list collection
IsSerializedCollection(text) == JsonParse(text).ok /\ JsonParse(text).v.t = "arr" /\ \A k \in 1..Len(JsonParse(text).v.a) : IsListValue(JsonParse(text).v.a[k])

\* C11: once the application is mounted, if the stored entry is the
\* serialisation of a collection the initial collection equals that collection,
\* and if the entry is absent or is anything else than the serialisation of a
\* list collection the initial collection is the default collection.
C11_StartFromStore == boot.phase = "mounted" =>
  /\ \A c \in SavedCollections : boot.entry = StoredEntry(Stringify(ListsValue(c))) => boot.lists = ListsValue(c)
  /\ (~boot.entry.present \/ ~IsSerializedCollection(boot.entry.text)) => boot.lists = ListsValue(getDefaultLists)

\* the start fell back to the default: no entry, an empty one, or one that JSON.parse rejects
FellBack == boot.phase = "mounted" /\ (~boot.entry.present \/ boot.entry.text = <<>> \/ ~JsonParse(boot.entry.text).ok)

\* the JSON value is a collection of one list with four items, done of them complete
OneListOfFour(v, done) == v.t = "arr" /\ Len(v.a) = 1 /\ IsListValue(v.a[1]) /\ Len(Member(v.a[1], <<"items">>).a) = 4 /\ Cardinality({k \in 1..4 : Member(Member(v.a[1], <<"items">>).a[k], <<"completed">>) = JBool(TRUE)}) = done

\* C12 as claimed: the collection the start falls back to is one list with
\* four items, two of them marked complete.
C12_DefaultTwoCompleted == FellBack => OneListOfFour(boot.lists, 2)

\* C12 amended: the collection the start falls back to is one list with four
\* items, one of them marked complete.
C12_DefaultOneCompleted == FellBack => OneListOfFour(boot.lists, 1)

\* the start fell back to the default on a truncated entry
C12_Witness == FellBack /\ boot.entry.present /\ Len(boot.entry.text) > 1 /\ boot.lists = ListsValue(getDefaultLists)

\* the request the client sends: prompt and modelName present
FullRequest == <<"{", "\"", "prompt", "\"", ":", "\"", "hi", "\"", ",", "\"", "modelName", "\"", ":", "\"", "m", "\"", "}">>

\* the response has the status and an {error} body
IsError(r, status) == r.answered /\ r.statusCode = status /\ r.body.kind = "error"

\* C13: the relay answers a request whose method is not POST with 405 and an
\* {error} body, a POST request made while the credential is missing with 500
\* and an {error} body, and a forwarded request that the provider fails with an
\* HTTP status with that status and an {error} body; it answers 200, with the
\* provider's payload, only when the provider's call succeeded.
C13_RelayStatus == relay.phase = "answered" =>
  LET r == relay.responses[1]
      up == relay.up IN
  /\ (relay.event.httpMethod # "POST" => IsError(r, 405))
  /\ (relay.event.httpMethod = "POST" /\ relay.keys[1] = MissingKey => IsError(r, 500))
  /\ (relay.event.httpMethod = "POST" /\ relay.keys[1] # MissingKey /\ relay.event.body = FullRequest /\ up.kind \in {"http", "httpNoJson"} => IsError(r, up.status))
  /\ (r.answered /\ r.statusCode = 200 => up.kind \in {"ok", "empty"} /\ r.body \in {TextBody(up.text), DataBody([text |-> up.text, reason |-> up.reason])})

\* the response carries the credential in its body or its headers
Mentions(r, key) ==
  \/ r.body.kind = "error" /\ \E p \in 1..Len(r.body.error) : r.body.error[p] \in {key, "Bearer " \o key}
  \/ r.body.kind = "text" /\ r.body.text \in {key, "Bearer " \o key}
  \/ r.body.kind = "data" /\ r.body.data.text \in {key, "Bearer " \o key}
  \/ \E h \in r.headers : h[2] \in {key, "Bearer " \o key}

\* C14: for the same request and the same behaviour of the provider, the
\* responses under any two values of the credential are the same response,
\* and no response carries the credential in its body or headers.
C14_CredentialNotEchoed == relay.phase = "answered" =>
  /\ (relay.keys[1] # MissingKey /\ relay.keys[2] # MissingKey => relay.responses[1] = relay.responses[2])
  /\ \A i \in 1..2 : relay.keys[i] # MissingKey => ~Mentions(relay.responses[i], relay.keys[i])

\* a forwarded request failed by the provider was answered under two different credentials
C14_Witness == relay.phase = "answered" /\ relay.keys[1] \in Credentials /\ relay.keys[2] \in Credentials /\ relay.keys[1] # relay.keys[2] /\ relay.server = "netlify" /\ relay.event.httpMethod = "POST" /\ relay.event.body = FullRequest /\ relay.up.kind = "http" /\ relay.responses[1].statusCode = 429

\* execute has returned from a call that expected JSON and got a text from the relay
ParsedReply == hook.phase = "returned" /\ hook.responseFormat = "json" /\ hook.reply.response.answered /\ hook.reply.response.statusCode = 200 /\ hook.reply.response.body.kind = "text"

\* a call has returned null with the parse failure as its error, not loading
ParseFailure(h) == h.result = NullResult /\ Len(h.error) > 1 /\ h.error[1] = "Failed to parse API response as JSON: " /\ ~h.isLoading

\* C15: the result of execute is the direct parse of the reply when that
\* succeeds, else the parse of the sanitized reply when that succeeds, else the
\* parse of the first balanced span when there is one and it parses; when all
\* three fail execute returns null with the parse failure as its error and
\* shows it in one error toast; settling a call sends no further request.
C15_StagedParse == [](ParsedReply =>
      LET text == hook.reply.response.body.text
          direct == JsonParse(text)
          sanitized == JsonParse(sanitizeJsonString(text))
          span == firstSpan(text)
          extracted == JsonParse(span.text) IN
      /\ (direct.ok => hook.result = Result(direct.v))
      /\ (~direct.ok /\ sanitized.ok => hook.result = Result(sanitized.v))
      /\ (~direct.ok /\ ~sanitized.ok /\ span.found /\ extracted.ok => hook.result = Result(extracted.v))
      /\ (~direct.ok /\ ~sanitized.ok /\ ~(span.found /\ extracted.ok) => ParseFailure(hook)))
  /\ [][hook.phase = "fetching" /\ ParsedReply' =>
          /\ hook'.requests = hook.requests
          /\ (hook'.result = NullResult => hook'.toasts = <<Toast(<<"API Error: ">> \o hook'.error, "error")>>)]_vars

\* a reply in prose was parsed by the third attempt, after the first two failed
C15_Witness == ParsedReply /\ hook.reply.how = "prose" /\ ~JsonParse(hook.reply.response.body.text).ok /\ ~JsonParse(sanitizeJsonString(hook.reply.response.body.text)).ok /\ hook.result = Result(hook.reply.of) /\ hook.requests = 1

\* C16: for a reply made of the JSON text of an object or array J with a
\* trailing comma before the closing bracket, or inside a json code fence, or
\* between prose, execute returns J; for a reply that holds no JSON it returns
\* null and reports the parse failure.
C16_TolerantParse == ParsedReply =>
  /\ (hook.reply.how \in {"trailingComma", "fenced", "prose"} => hook.result = Result(hook.reply.of))
  /\ (hook.reply.how = "noJson" => ParseFailure(hook))

\* the entries of a generate reply that give an item
Surviving(entries) == SelectSeq(entries, LAMBDA e : Trim(e) # "")

\* C17: a generate call that settles with an array of entries leaves the target
\* list holding the items it held before, unchanged and in their order,
\* followed by one item per entry with non-empty trimmed text, in the order
\* received, each with the trimmed text, not completed, and an id that no item
\* of the collection had and no other new item has.
C17_GenerateAppends == [][Step("generateSettle") /\ last'.outcome = "generated" =>
    LET i == last'.idx
        kept == Surviving(last'.reply.items.elems) IN
    /\ i \in 1..Len(lists) /\ i \in 1..Len(lists')
    /\ Len(lists'[i].items) = Len(lists[i].items) + Len(kept)
    /\ SubSeq(lists'[i].items, 1, Len(lists[i].items)) = lists[i].items
    /\ \A k \in 1..Len(kept) :
         LET it == lists'[i].items[Len(lists[i].items) + k] IN
         /\ it.value = Trim(kept[k]) /\ ~it.completed
         /\ it.id \notin ItemIds(lists)
         /\ IdCount(lists', it.id) = 1]_vars

\* C18: while a regroup call is in flight isRegrouping is true, and it stays
\* true in every step that leaves the call in flight; a regroup call is sent
\* only from a state with isRegrouping false, no call in flight, no preview
\* shown and no candidate stored.
C18_OneRegroupCall ==
  /\ [](regroupCall.active => isRegrouping)
  /\ [][regroupCall.active /\ regroupCall'.active => isRegrouping']_vars
  /\ [][Step("regroupStart") /\ regroupCall'.active => ~isRegrouping /\ ~regroupCall.active /\ ~showRegroupPreview /\ ~suggestedRegrouping.some]_vars

\* a regroup call is still in flight after another handler has run
C18_Witness == regroupCall.active /\ isRegrouping /\ last.op \notin {"regroupStart", "save", "init"}

\* the hook is the one of this run
HookRuns == hook # Idle

\* C19: a regroup call that settles leaves isRegrouping false, and
\* isRegrouping is true only while a call is in flight; a generate call that
\* settles leaves isGenerating of its list false; execute returns with
\* isLoading false, with a result or with any error, and isLoading is true
\* only while execute awaits the relay.
C19_BusyFlagsCleared ==
  /\ [][Step("regroupSettle") => ~isRegrouping' /\ ~regroupCall'.active]_vars
  /\ [](~HookRuns /\ isRegrouping => regroupCall.active)
  /\ [][Step("generateSettle") => genCalls' # genCalls /\ \A c \in genCalls \ genCalls' : ~\E d \in genCalls' : d.listId = c.listId]_vars
  /\ [][HookRuns /\ hook.phase = "fetching" /\ hook'.phase = "returned" => ~hook'.isLoading]_vars
  /\ [](HookRuns /\ hook.isLoading => hook.phase = "fetching")

\* execute has returned null after a request, with its error, and is not loading
C19_Witness == HookRuns /\ hook.phase = "returned" /\ hook.requests = 1 /\ hook.result = NullResult /\ hook.error # <<>> /\ ~hook.isLoading

\* the reply falls under one of the error kinds of execute: no connection, a
\* failed fetch, a status outside 200..299, a body with an error, a body
\* without text, a text that no parse attempt accepts
ExecuteErrorKind(h) ==
  \/ h.reply = NoReply
  \/ ~h.reply.response.answered
  \/ h.reply.response.statusCode < 200 \/ h.reply.response.statusCode > 299
  \/ h.reply.response.body.kind # "text"
  \/ h.responseFormat = "json" /\ ~robustJsonParse(h.reply.response.body.text).ok

\* some toast of the sequence is an error toast
ShowsError(toasts) == \E k \in 1..Len(toasts) : toasts[k].type = "error"

\* C20: execute returns null with its error stored and an error toast for
\* every error kind, never a value; a regroup call that settles with a null
\* result or with a reply that holds no lists array after normalization leaves
\* the collection unchanged, no candidate, the preview hidden, and shows an
\* error toast; a generate call that fails leaves the collection and the
\* regroup state unchanged and shows an error toast.
C20_ErrorsAreCaught ==
  /\ [](HookRuns /\ hook.phase = "returned" /\ ExecuteErrorKind(hook) => hook.result = NullResult /\ hook.error # <<>>)
  /\ [][HookRuns /\ hook.phase # "returned" /\ hook'.phase = "returned" /\ ExecuteErrorKind(hook') => ShowsError(hook'.toasts)]_vars
  /\ [][Step("regroupSettle") /\ (last'.reply.isNull \/ ~normalize(last'.reply).ok) =>
         /\ lists' = lists
         /\ suggestedRegrouping' = NullSuggestion /\ ~showRegroupPreview'
         /\ ShowsError(shown')]_vars
  /\ [][Step("generateSettle") /\ last'.outcome = "failed" =>
         /\ lists' = lists
         /\ UNCHANGED <<suggestedRegrouping, showRegroupPreview>>
         /\ ShowsError(shown')]_vars

\* a regroup call has settled with a reply that has no lists array
C20_Witness == ~HookRuns /\ last.op = "regroupSettle" /\ ~last.reply.isNull /\ ~normalize(last.reply).ok /\ suggestedRegrouping = NullSuggestion /\ ShowsError(shown)

\* C21: a call of execute while isOnline is false returns null in that step,
\* sends no request, stores the offline error, shows one error toast and
\* leaves isLoading false.
C21_OfflineShortCircuit == [][HookRuns /\ ~hook.isOnline /\ hook'.calls = hook.calls + 1 =>
    /\ hook'.phase = "returned" /\ hook'.result = NullResult
    /\ hook'.requests = hook.requests
    /\ hook'.error = <<"You are currently offline. This feature requires an internet connection.">>
    /\ hook'.toasts = <<Toast(<<"This action requires an internet connection">>, "error")>>
    /\ ~hook'.isLoading]_vars

\* execute was called offline and has returned null without a request
C21_Witness == HookRuns /\ ~hook.isOnline /\ hook.calls = 1 /\ hook.requests = 0 /\ hook.phase = "returned" /\ hook.result = NullResult /\ hook.error # <<>>

\* the items of a response category that reconciliation keeps
KeptItems(items) == SelectSeq(items, LAMBDA r : r.id # "" /\ Trim(r.value) # "")

Faithful(reply, ls) ==
  /\ ~reply.isNull /\ reply.lists.tag = "array"
  /\ \A k \in 1..Len(reply.lists.elems) : reply.lists.elems[k].items.tag = "array"
  /\ LET R == Flat([k \in 1..Len(reply.lists.elems) |-> [items |-> reply.lists.elems[k].items.elems]]) IN
     /\ Len(R) = Len(Flat(ls))
     /\ \A x \in Range(R) \cup Range(Flat(ls)) : Cardinality({j \in 1..Len(R) : R[j] = x}) = Cardinality({j \in 1..Len(Flat(ls)) : Flat(ls)[j] = x})

\* C23: a regroup call that settles with a reply that returns every item of
\* the collection it was sent exactly once, unchanged, stores a candidate and
\* shows the preview.
C23_FaithfulReplyAccepted == [][regroupCall.active /\ Step("regroupSettle") /\ Faithful(last'.reply, regroupCall.lists) => suggestedRegrouping'.some /\ showRegroupPreview']_vars

\* C24: a generate call that settles with success leaves the collection as it
\* stood before the step, with the new items appended to the target list:
\* the same lists in the same order, every list but the target unchanged, the
\* target with its id, its title and its items followed by the new items.
C24_GenerateKeepsChanges == [][Step("generateSettle") /\ last'.outcome = "generated" =>
    LET i == last'.idx IN
    /\ Len(lists') = Len(lists) /\ i \in 1..Len(lists)
    /\ \A j \in 1..Len(lists) : j # i => lists'[j] = lists[j]
    /\ lists'[i].id = lists[i].id /\ lists'[i].title = lists[i].title
    /\ Len(lists'[i].items) = Len(lists[i].items) + Len(Surviving(last'.reply.items.elems))
    /\ SubSeq(lists'[i].items, 1, Len(lists[i].items)) = lists[i].items]_vars

\* C25: a handleConfirmRegroup step that commits a candidate leaves a
\* collection that holds every item id as often as the collection before the
\* step held it.
C25_CommitConservesIds == [][Step("confirmRegroup") /\ last'.outcome = "applied" => SameIdBag(lists, lists')]_vars

\* the states of the regroup flow
FlowIdle == ~isRegrouping /\ ~suggestedRegrouping.some /\ ~showRegroupPreview

FlowInFlight == isRegrouping /\ regroupCall.active /\ ~suggestedRegrouping.some /\ ~showRegroupPreview

FlowPendingReview == ~isRegrouping /\ ~regroupCall.active /\ suggestedRegrouping.some /\ showRegroupPreview

\* C26: in every state of the running application the regroup flow is idle,
\* in flight or pending review, and the preview is shown exactly when a
\* candidate is stored; a handleConfirmRegroup step taken with no candidate
\* leaves the collection unchanged and shows an error toast.
C26_ThreeStateFlow ==
  /\ [](boot = Idle => (FlowIdle \/ FlowInFlight \/ FlowPendingReview) /\ (showRegroupPreview <=> suggestedRegrouping.some))
  /\ [][Step("confirmRegroup") /\ ~suggestedRegrouping.some => lists' = lists /\ shown' = <<Toast("Error applying regrouping: No suggestion found.", "error")>> /\ ~suggestedRegrouping'.some /\ ~showRegroupPreview']_vars

\* handleConfirmRegroup was called with no candidate
C26_Witness == boot = DirectCall /\ last = Did("confirmRegroup", "nosuggestion") /\ ShowsError(shown) /\ lists = getDefaultLists

\* a run of the save effect that leaves the collection as it is
SaveStep == last'.op = "save" /\ lists' = lists /\ (ops' = ops + 1 \/ effectDue' # effectDue \/ storage' # storage)

\* C27: after a save that failed, the save effect does not run again as long
\* as the collection stays as it is: the step that follows the failed save is
\* no run of the save effect.
C27_NoRetryAfterFailure == [][last = Did("save", "threw") => ~SaveStep]_vars

\* C28: a regroupListsWithAI step taken on a collection without lists, or
\* with lists that hold no item, sends no call and leaves the collection as it
\* is; with lists and no item it shows an error toast and leaves isRegrouping
\* false.
C28_NothingToRegroup == [][Step("regroupStart") /\ (Len(lists) = 0 \/ SumLen(lists) = 0) =>
    /\ ~regroupCall'.active /\ lists' = lists
    /\ (Len(lists) # 0 => ShowsError(shown') /\ ~isRegrouping')]_vars

\* regroupListsWithAI was called on a collection without lists, or on one with
\* an empty list, and returned without sending
C28_Witness == last.op = "regroupStart" /\ ~regroupCall.active /\ ((lists = <<>> /\ last.outcome = "nolists") \/ (Len(lists) > 0 /\ SumLen(lists) = 0 /\ last.outcome = "noitems" /\ ShowsError(shown) /\ ~isRegrouping))

\* the ids of the items of list listIndex of ls; none when there is no such list
IdsOfList(ls, listIndex) == IF listIndex \in 1..Len(ls) THEN {ls[listIndex].items[k].id : k \in 1..Len(ls[listIndex].items)} ELSE {}

\* C29: a CRUD operation called with a list index outside the collection, and
\* updateItem, deleteItem or toggleComplete called with an item id that no
\* item of the targeted list has, leaves the collection equal to what it was.
C29_MissingTargetNoChange == [][(\E op \in CrudOps : Step(op)) /\ boot = DirectCall /\
      (last'.idx \notin 1..Len(lists) \/ (last'.op \in {"updateItem", "deleteItem", "toggleComplete"} /\ last'.id \notin IdsOfList(lists, last'.idx)))
    => lists' = lists]_vars

\* deleteItem was called on a list that does not hold the id, which another
\* list holds, and the collection is as before
C29_Witness == boot = DirectCall /\ last.op = "deleteItem" /\ last.idx = 2 /\ last.id = "6" /\ lists = StoredLists

\* C30: a step enters edit mode only by a double click on an item that is not
\* completed; the step that handles Escape leaves edit mode, calls onUpdate
\* not, and leaves the item as it is; a step calls onUpdate only when the
\* component is editing and the step handles Enter or a blur, and then with
\* the id of the item and the text the input holds.
C30_EditProtocol ==
  [][listItem # Idle /\ listItem'.events = listItem.events + 1 =>
       /\ (~listItem.isEditing /\ listItem'.isEditing => listItem'.handler = "doubleClick" /\ ~listItem.item.completed)
       /\ (listItem'.handler = "doubleClick" /\ listItem.item.completed => ~listItem'.isEditing /\ ~listItem'.update.called)
       /\ (listItem'.handler = "keyDown" /\ listItem'.key = "Escape" => ~listItem'.isEditing /\ ~listItem'.update.called /\ listItem'.item = listItem.item)
       /\ (listItem'.update.called =>
             /\ listItem.isEditing
             /\ listItem'.handler = "blur" \/ (listItem'.handler = "keyDown" /\ listItem'.key = "Enter")
             /\ listItem'.update = onUpdate(listItem.item.id, listItem.inputValue))]_vars

\* the user typed another text and pressed Escape: not editing, the item has
\* its text, onUpdate was not called
C30_Witness == listItem # Idle /\ listItem.handler = "keyDown" /\ listItem.key = "Escape" /\ listItem.events = 3 /\ ~listItem.isEditing /\ ~listItem.update.called /\ listItem.item = Item("item-1", "add item and save using the buttons", FALSE) /\ listItem.inputValue = listItem.item.value

====
